---- MODULE Spec2Model ----
(***************************************************************************)
(* SauliethWM: the event pump (core/manager.py), the workspace handler     *)
(* (__main__.py), the workspaces (tiling/workspace.py) and the workspace   *)
(* manager (tiling/workspace_manager.py), together with the part of the    *)
(* OS window state those modules read and write.                           *)
(*                                                                         *)
(* Every method is an operator from a program state S (a record holding    *)
(* every field) to the program state after the call, so that nested calls  *)
(* (an event handler emitting to the workspace handler, which retiles) are *)
(* composed exactly as the code composes them.  An action commits the      *)
(* state returned by one entry point.                                      *)
(***************************************************************************)
EXTENDS Integers, Sequences, FiniteSets, TLC

\* ------------------------------------------------------------------------
\* Bounds of the model
\* ------------------------------------------------------------------------
NumHandles == 1
NumWorkspaces == 2
MaxMonitors == 2
MonW == 1000
MonH == 800
TaskbarH == 40

\* ------------------------------------------------------------------------
\* Program constants
\* ------------------------------------------------------------------------
OFFSCREEN == -32000
DefaultRatioPct == 55
DefaultGap == 4
NfTolerance == 5
ThreeColumnRatioPct == 50

\* the steps of grow_master / shrink_master (0.05) and of increase_gap /
\* decrease_gap
RatioStep == 5
GapStep == 2
NumLayouts == 4
\* win32.py defines HWND_TOP, HWND_TOPMOST and HWND_NOTOPMOST only: reading
\* win32.HWND_BOTTOM raises AttributeError while the arguments of
\* set_window_pos are evaluated, before the OS call is made.
HWND_BOTTOM_defined == FALSE

Handles == 1..NumHandles
WsIds == 1..NumWorkspaces
None == 0

\* ------------------------------------------------------------------------
\* Geometry kit (tiling/rect.py).  A Rect is <<x, y, w, h>>; the OS reports
\* a window rect as <<left, top, right, bottom>>.
\* ------------------------------------------------------------------------
Max(a, b) == IF a >= b THEN a ELSE b

Min2(a, b) == IF a <= b THEN a ELSE b

Rect(x, y, w, h) == <<x, y, w, h>>

from_ltrb(l) == Rect(l[1], l[2], l[3] - l[1], l[4] - l[2])

to_ltrb(r) == <<r[1], r[2], r[1] + r[3], r[2] + r[4]>>

pad(r, gap) == Rect(r[1] + gap, r[2] + gap, Max(0, r[3] - 2 * gap), Max(0, r[4] - 2 * gap))

\* int(self.w * ratio), the ratio held in hundredths
split_horizontal(r, pct) ==
    LET left_w == (r[3] * pct) \div 100
    IN  << Rect(r[1], r[2], left_w, r[4]),
           Rect(r[1] + left_w, r[2], r[3] - left_w, r[4]) >>

\* Variant: every row gets the base height, the remainder is dropped.
slice_rows_even(r, count) ==
    IF count <= 0 THEN <<>>
    ELSE IF count = 1 THEN <<r>>
    ELSE LET base_h == r[4] \div count
         IN  [i \in 1..count |-> Rect(r[1], r[2] + (i - 1) * base_h, r[3], base_h)]

slice_rows(r, count) ==
    IF count <= 0 THEN <<>>
    ELSE IF count = 1 THEN <<r>>
    ELSE LET base_h == r[4] \div count
         IN  [i \in 1..count |->
                Rect(r[1], r[2] + (i - 1) * base_h, r[3],
                     IF i < count THEN base_h ELSE r[4] - (count - 1) * base_h)]

\* int(self.h * ratio)
split_vertical(r, pct) ==
    LET top_h == (r[4] * pct) \div 100
    IN  << Rect(r[1], r[2], r[3], top_h),
           Rect(r[1], r[2] + top_h, r[3], r[4] - top_h) >>

slice_columns(r, count) ==
    IF count <= 0 THEN <<>>
    ELSE IF count = 1 THEN <<r>>
    ELSE LET base_w == r[3] \div count
         IN  [i \in 1..count |->
                Rect(r[1] + (i - 1) * base_w, r[2],
                     IF i < count THEN base_w ELSE r[3] - (count - 1) * base_w,
                     r[4])]

\* TallLayout.arrange with master_ratio pct/100 and the given gap
TallArrange(count, area, pct, gap) ==
    IF count <= 0 THEN <<>>
    ELSE IF count = 1 THEN << pad(area, gap) >>
    ELSE LET sp == split_horizontal(area, pct)
             master_area == sp[1]
             stack_area == sp[2]
             master_rect == Rect(master_area[1] + gap, master_area[2] + gap,
                                 master_area[3] - gap - (gap \div 2),
                                 master_area[4] - 2 * gap)
             stack_count == count - 1
             stack_rows == slice_rows(stack_area, stack_count)
             stack_rects ==
                [i \in 1..stack_count |->
                   LET row == stack_rows[i]
                       top_gap == IF i = 1 THEN gap ELSE gap \div 2
                       bottom_gap == IF i = stack_count THEN gap ELSE gap \div 2
                   IN  Rect(row[1] + (gap \div 2), row[2] + top_gap,
                            row[3] - gap - (gap \div 2),
                            row[4] - top_gap - bottom_gap)]
         IN  <<master_rect>> \o stack_rects

\* WideLayout.arrange
WideArrange(count, area, pct, gap) ==
    IF count <= 0 THEN <<>>
    ELSE IF count = 1 THEN << pad(area, gap) >>
    ELSE LET sp == split_vertical(area, pct)
             master_area == sp[1]
             stack_area == sp[2]
             master_rect == Rect(master_area[1] + gap, master_area[2] + gap,
                                 master_area[3] - 2 * gap,
                                 master_area[4] - gap - (gap \div 2))
             stack_count == count - 1
             stack_cols == slice_columns(stack_area, stack_count)
             stack_rects ==
                [i \in 1..stack_count |->
                   LET col == stack_cols[i]
                       left_gap == IF i = 1 THEN gap ELSE gap \div 2
                       right_gap == IF i = stack_count THEN gap ELSE gap \div 2
                   IN  Rect(col[1] + left_gap, col[2] + (gap \div 2),
                            col[3] - left_gap - right_gap,
                            col[4] - gap - (gap \div 2))]
         IN  <<master_rect>> \o stack_rects

\* MonocleLayout.arrange
MonocleArrange(count, area, gap) ==
    IF count <= 0 THEN <<>> ELSE [i \in 1..count |-> pad(area, gap)]

\* ThreeColumnLayout.arrange.  The windows after the master go to the
\* left column (odd indices) and to the right column (even indices).
ThreeColumnArrange(count, area, pct, gap) ==
    IF count <= 0 THEN <<>>
    ELSE IF count = 1 THEN << pad(area, gap) >>
    ELSE IF count = 2
    THEN LET sp == split_horizontal(area, pct)
             left == sp[1]
             right == sp[2]
         IN  << Rect(left[1] + gap, left[2] + gap,
                     left[3] - gap - (gap \div 2), left[4] - 2 * gap),
                Rect(right[1] + (gap \div 2), right[2] + gap,
                     right[3] - gap - (gap \div 2), right[4] - 2 * gap) >>
    ELSE LET left_w == (area[3] * (100 - pct)) \div 200
             center_w == (area[3] * pct) \div 100
             right_w == area[3] - left_w - center_w
             left_area == Rect(area[1], area[2], left_w, area[4])
             center_area == Rect(area[1] + left_w, area[2], center_w, area[4])
             right_area == Rect(area[1] + left_w + center_w, area[2], right_w, area[4])
             master_rect == Rect(center_area[1] + (gap \div 2), center_area[2] + gap,
                                 center_area[3] - gap, center_area[4] - 2 * gap)
             \* 0-based window indices, as in the code
             left_windows == SelectSeq([i \in 1..(count - 1) |-> i], LAMBDA i : i % 2 = 1)
             right_windows == SelectSeq([i \in 1..(count - 1) |-> i], LAMBDA i : i % 2 = 0)
             left_rows == slice_rows(left_area, Len(left_windows))
             right_rows == slice_rows(right_area, Len(right_windows))
             Slot(rows, idx, n, xoff) ==
                LET row == rows[idx]
                    top_gap == IF idx = 1 THEN gap ELSE gap \div 2
                    bottom_gap == IF idx = n THEN gap ELSE gap \div 2
                IN  Rect(row[1] + xoff, row[2] + top_gap,
                         row[3] - gap - (gap \div 2), row[4] - top_gap - bottom_gap)
         IN  [k \in 1..count |->
                IF k = 1 THEN master_rect
                ELSE IF (k - 1) % 2 = 1
                THEN Slot(left_rows, k \div 2, Len(left_windows), gap)
                ELSE Slot(right_rows, (k - 1) \div 2, Len(right_windows), gap \div 2)]

\* Monitor i (0-based): monitors side by side, the taskbar at the bottom
full_rect(mi) == Rect(mi * MonW, 0, MonW, MonH)
work_rect(mi) == Rect(mi * MonW, 0, MonW, MonH - TaskbarH)

\* The rect the OS gives a newly created ordinary window
DefaultRect == <<100, 100, 500, 400>>

\* ------------------------------------------------------------------------
\* State
\* ------------------------------------------------------------------------
VARIABLES
    valid,        \* OS: handles for which IsWindow is true
    rect,         \* OS: window rect <<left, top, right, bottom>> of each handle
    decorated,    \* OS: handles whose style has WS_CAPTION or WS_THICKFRAME
    lowered,      \* OS: handles last placed at the bottom of the Z-order
    fullscreen,   \* Window._fullscreen
    fs_saved,     \* Window._saved_style (decoration bit), _saved_rect, WS_VISIBLE of _saved_style
    windows,      \* WindowManager._windows (the ManagedSet), as its key set
    focused,      \* WindowManager._focused (None = 0)
    suppress,     \* WindowManager._suppress_hide_show
    suppressed,   \* WindowManager._suppressed_hwnds
    nws,          \* len(WorkspaceManager._workspaces), ids 1..nws
    nmon,         \* len(WorkspaceManager._monitors)
    monitor_ws,   \* WorkspaceManager._monitor_ws
    tiled,        \* Workspace._tiled_windows, per workspace id
    floating,     \* Workspace._floating_windows, per workspace id
    active,       \* Workspace._active, per workspace id
    saved,        \* Workspace._saved_positions, per workspace id
    origins,      \* _minimized_origins of the workspace handler (0 = absent)
    layout_index, \* Workspace._layout_index, per workspace id
    showing,      \* OS: "normal", "minimized" (iconic) or "maximized" (zoomed)
    hidden,       \* OS: the windows whose WS_VISIBLE bit is cleared
    subscribers,  \* WindowManager._subscribers: the callbacks, in registration order
    on_ws_changed,  \* WorkspaceManager._on_ws_changed, in registration order
    _master_ratio,  \* Layout._master_ratio in hundredths, per workspace id and layout index
    _gap,           \* Layout._gap, per workspace id and layout index
    lpc,          \* position of the thread that called WindowManager.start()
    running,      \* WindowManager._running
    loop_thread_id, \* WindowManager._loop_thread_id (0 = not set yet)
    queue,        \* OS: the messages posted to the loop thread's queue
    quit_flag,    \* OS: the threads whose queue PostQuitMessage has flagged
    spc,          \* position of another thread inside WindowManager.stop()
    cb_stop,      \* a callback on the loop thread has called stop()
    scan_list,    \* the windows _scan_existing has still to insert
    posted,       \* the number of messages the OS has posted so far
    hook_handle,  \* WindowManager._hook_handle (0 = no hook installed)
    com,          \* OS: CoInitialize calls of the loop thread not yet balanced
    hotkeys,      \* HotkeyManager._hotkeys: the ids registered with the OS
    next_id,      \* HotkeyManager._next_id
    resize_active,   \* ResizeMode._active
    temp_hotkey_ids  \* ResizeMode._temp_hotkey_ids

fields == << valid, rect, decorated, lowered, fullscreen, fs_saved, windows,
             focused, suppress, suppressed, nws, nmon, monitor_ws, tiled, floating,
             active, saved, origins, layout_index, showing, hidden, subscribers,
             on_ws_changed, _master_ratio, _gap >>

life == << lpc, running, loop_thread_id, queue, quit_flag, spc, cb_stop,
           scan_list, posted >>

res == << hook_handle, com, hotkeys, next_id, resize_active, temp_hotkey_ids >>

vars == << fields, life, res >>

NoPos == <<>>
ZeroRect == <<0, 0, 0, 0>>

\* The program state as one record, extended with what an entry point
\* produces besides its effect on the fields: emits (the events delivered to
\* the subscribers), ws_emits (the workspace-changed callbacks), calls and
\* ws_calls (the callbacks invoked, in the order of their invocation),
\* raised (the call ended by raising) and ret (the value returned).
Cur ==
    [ valid |-> valid, rect |-> rect, decorated |-> decorated,
      lowered |-> lowered, fullscreen |-> fullscreen, fs_saved |-> fs_saved,
      windows |-> windows, focused |-> focused, suppress |-> suppress,
      suppressed |-> suppressed, nws |-> nws, nmon |-> nmon, monitor_ws |-> monitor_ws,
      tiled |-> tiled, floating |-> floating, active |-> active,
      saved |-> saved, origins |-> origins,
      layout_index |-> layout_index, showing |-> showing, hidden |-> hidden,
      subscribers |-> subscribers, on_ws_changed |-> on_ws_changed,
      _master_ratio |-> _master_ratio, _gap |-> _gap,
      emits |-> <<>>, ws_emits |-> <<>>, calls |-> <<>>, ws_calls |-> <<>>,
      retiled |-> <<>>, raised |-> FALSE, ret |-> "none" ]

\* The fields an entry point leaves behind become the next state.
CommitFields(S) ==
    \E T \in {S} :
        /\ valid' = T.valid
        /\ rect' = T.rect
        /\ decorated' = T.decorated
        /\ lowered' = T.lowered
        /\ fullscreen' = T.fullscreen
        /\ fs_saved' = T.fs_saved
        /\ windows' = T.windows
        /\ focused' = T.focused
        /\ suppress' = T.suppress
        /\ suppressed' = T.suppressed
        /\ nws' = T.nws
        /\ nmon' = T.nmon
        /\ monitor_ws' = T.monitor_ws
        /\ tiled' = T.tiled
        /\ floating' = T.floating
        /\ active' = T.active
        /\ saved' = T.saved
        /\ origins' = T.origins
        /\ layout_index' = T.layout_index
        /\ showing' = T.showing
        /\ hidden' = T.hidden
        /\ subscribers' = T.subscribers
        /\ on_ws_changed' = T.on_ws_changed
        /\ _master_ratio' = T._master_ratio
        /\ _gap' = T._gap

\* an entry point called outside start() and stop()
Commit(S) == CommitFields(S) /\ UNCHANGED life /\ UNCHANGED res

\* ------------------------------------------------------------------------
\* Sequence helpers (Python list semantics)
\* ------------------------------------------------------------------------
InSeq(x, s) == \E i \in 1..Len(s) : s[i] = x

\* list.remove(x): drops the first occurrence
RemoveFirst(s, x) ==
    IF ~InSeq(x, s) THEN s
    ELSE LET k == CHOOSE i \in 1..Len(s) : s[i] = x /\ \A j \in 1..(i - 1) : s[j] # x
         IN  [i \in 1..(Len(s) - 1) |-> IF i < k THEN s[i] ELSE s[i + 1]]

Elems(s) == {s[i] : i \in 1..Len(s)}

Raise(S) == [S EXCEPT !.raised = TRUE]

Return(S, v) == IF S.raised THEN S ELSE [S EXCEPT !.ret = v]

\* ------------------------------------------------------------------------
\* OS primitives (core/win32.py)
\* ------------------------------------------------------------------------
\* SetWindowPos(hwnd, insert_after, x, y, w, h, flags); z is "keep" under
\* SWP_NOZORDER, else "top" or "bottom".  Fails without effect on a handle
\* that is no window.
set_window_pos(S, h, x, y, w, ht, nomove, nosize, z) ==
    IF h \notin S.valid THEN S
    ELSE LET old == S.rect[h]
             nx == IF nomove THEN old[1] ELSE x
             ny == IF nomove THEN old[2] ELSE y
             nw == IF nosize THEN old[3] - old[1] ELSE w
             nh == IF nosize THEN old[4] - old[2] ELSE ht
         IN  [S EXCEPT !.rect[h] = <<nx, ny, nx + nw, ny + nh>>,
                       !.lowered = IF z = "bottom" THEN @ \cup {h}
                                   ELSE IF z = "top" THEN @ \ {h} ELSE @]

\* ShowWindow(hwnd, SW_RESTORE)
show_window_restore(S, h) ==
    IF h \notin S.valid THEN S
    ELSE [S EXCEPT !.showing[h] = "normal", !.hidden = @ \ {h}]

\* ShowWindow(hwnd, SW_HIDE)
show_window_hide(S, h) ==
    IF h \notin S.valid THEN S
    ELSE [S EXCEPT !.hidden = @ \cup {h}]

\* ------------------------------------------------------------------------
\* Window (core/window.py)
\* ------------------------------------------------------------------------
\* Variant: the window must cover the monitor exactly, without tolerance.
is_native_fullscreen_exact(S, h, fr) ==
    /\ h \in S.valid
    /\ h \notin S.decorated
    /\ S.rect[h][1] <= fr[1]
    /\ S.rect[h][2] <= fr[2]
    /\ S.rect[h][3] >= fr[1] + fr[3]
    /\ S.rect[h][4] >= fr[2] + fr[4]

is_native_fullscreen(S, h, fr) ==
    /\ h \in S.valid
    /\ h \notin S.decorated
    /\ S.rect[h][1] <= fr[1] + NfTolerance
    /\ S.rect[h][2] <= fr[2] + NfTolerance
    /\ S.rect[h][3] >= fr[1] + fr[3] - NfTolerance
    /\ S.rect[h][4] >= fr[2] + fr[4] - NfTolerance

enter_fullscreen(S, h, fr) ==
    IF h \in S.fullscreen \/ h \notin S.valid THEN Return(S, "false")
    ELSE LET S0 == IF S.showing[h] # "normal" THEN show_window_restore(S, h) ELSE S
             S1 == [S0 EXCEPT !.fs_saved[h] = << h \in S.decorated, S.rect[h],
                                                  h \notin S.hidden >>,
                              !.decorated = @ \ {h},
                              !.hidden = IF h \in S.hidden THEN @ \cup {h} ELSE @ \ {h}]
             S2 == set_window_pos(S1, h, fr[1], fr[2], fr[3], fr[4], FALSE, FALSE, "keep")
         IN  Return([S2 EXCEPT !.fullscreen = @ \cup {h}], "true")

\* Variant: the styles are put back, the window stays where it is.
exit_fullscreen_keeps_rect(S, h) ==
    IF h \notin S.fullscreen THEN Return(S, "false")
    ELSE IF h \notin S.valid THEN Return([S EXCEPT !.fullscreen = @ \ {h}], "false")
    ELSE LET sv == S.fs_saved[h]
         IN  Return([S EXCEPT !.decorated = IF sv[1] THEN @ \cup {h} ELSE @ \ {h},
                              !.hidden = IF sv[3] THEN @ \ {h} ELSE @ \cup {h},
                              !.fullscreen = @ \ {h}], "true")

exit_fullscreen(S, h) ==
    IF h \notin S.fullscreen THEN Return(S, "false")
    ELSE IF h \notin S.valid THEN Return([S EXCEPT !.fullscreen = @ \ {h}], "false")
    ELSE LET sv == S.fs_saved[h]
             S1 == [S EXCEPT !.decorated = IF sv[1] THEN @ \cup {h} ELSE @ \ {h},
                             !.hidden = IF sv[3] THEN @ \ {h} ELSE @ \cup {h}]
             S2 == set_window_pos(S1, h, sv[2][1], sv[2][2], sv[2][3] - sv[2][1],
                                  sv[2][4] - sv[2][2], FALSE, FALSE, "keep")
         IN  Return([S2 EXCEPT !.fullscreen = @ \ {h}], "true")

\* WS_VISIBLE is cleared, then SetWindowPos with SWP_HIDEWINDOW
suspend_fullscreen(S, h) ==
    IF h \notin S.fullscreen \/ h \notin S.valid THEN S
    ELSE set_window_pos([S EXCEPT !.hidden = @ \cup {h}],
                        h, OFFSCREEN, OFFSCREEN, 1, 1, FALSE, FALSE, "keep")

\* Variant: the window is put back without SWP_SHOWWINDOW.
reapply_fullscreen_no_show(S, h, fr) ==
    IF h \notin S.fullscreen \/ h \notin S.valid THEN S
    ELSE set_window_pos([S EXCEPT !.decorated = @ \ {h}],
                        h, fr[1], fr[2], fr[3], fr[4], FALSE, FALSE, "keep")

\* the decorations are stripped, then SetWindowPos with SWP_SHOWWINDOW
reapply_fullscreen(S, h, fr) ==
    IF h \notin S.fullscreen \/ h \notin S.valid THEN S
    ELSE set_window_pos([S EXCEPT !.decorated = @ \ {h}, !.hidden = @ \ {h}],
                        h, fr[1], fr[2], fr[3], fr[4], FALSE, FALSE, "keep")

\* Variant: the position is taken relative to where the window is.
move_resize_relative(S, h, r) ==
    IF h \notin S.valid THEN S
    ELSE set_window_pos(S, h, S.rect[h][1] + r[1], S.rect[h][2] + r[2], r[3], r[4],
                        FALSE, FALSE, "keep")

move_resize(S, h, r) == set_window_pos(S, h, r[1], r[2], r[3], r[4], FALSE, FALSE, "keep")

\* ------------------------------------------------------------------------
\* Workspace (tiling/workspace.py)
\* ------------------------------------------------------------------------
all_windows(S, ws) == S.tiled[ws] \o S.floating[ws]

contains(S, ws, h) == InSeq(h, S.tiled[ws]) \/ InSeq(h, S.floating[ws])

Workspace_add_window(S, ws, h, fl) ==
    IF contains(S, ws, h) THEN S
    ELSE IF fl THEN [S EXCEPT !.floating[ws] = Append(@, h)]
    ELSE [S EXCEPT !.tiled[ws] = Append(@, h)]

\* Variant: the floating list is forgotten.
Workspace_remove_window_tiled_only(S, ws, h) ==
    IF InSeq(h, S.tiled[ws]) THEN [S EXCEPT !.tiled[ws] = RemoveFirst(@, h)]
    ELSE S

Workspace_remove_window(S, ws, h) ==
    IF InSeq(h, S.tiled[ws]) THEN [S EXCEPT !.tiled[ws] = RemoveFirst(@, h)]
    ELSE IF InSeq(h, S.floating[ws]) THEN [S EXCEPT !.floating[ws] = RemoveFirst(@, h)]
    ELSE S

\* Layout.__init__ and the master_ratio setter: max(0.1, min(0.9, value))
clamp_ratio(value) == Max(10, Min2(90, value))

\* Layout.__init__ and the gap setter: max(0, value)
clamp_gap(value) == Max(0, value)

\* _default_layouts(): TallLayout(), WideLayout(), MonocleLayout() take the
\* defaults of Layout.__init__, ThreeColumnLayout() its own master_ratio
default_master_ratio(li) ==
    clamp_ratio(IF li = 3 THEN ThreeColumnRatioPct ELSE DefaultRatioPct)

default_gap(li) == clamp_gap(DefaultGap)

\* layouts[li].arrange(count, area): _default_layouts() lists Tall, Wide,
\* Monocle, ThreeColumn
arrange(li, count, area, pct, gap) ==
    IF li = 0 THEN TallArrange(count, area, pct, gap)
    ELSE IF li = 1 THEN WideArrange(count, area, pct, gap)
    ELSE IF li = 2 THEN MonocleArrange(count, area, gap)
    ELSE ThreeColumnArrange(count, area, pct, gap)

\* current_layout.arrange
current_arrange(S, ws, count, area) ==
    arrange(S.layout_index[ws], count, area,
            S._master_ratio[ws][S.layout_index[ws]], S._gap[ws][S.layout_index[ws]])

\* Workspace.grow_master / shrink_master: current_layout.master_ratio moves
\* by step (0.05), through the setter
Workspace_grow_master(S, ws) ==
    [S EXCEPT !._master_ratio[ws][S.layout_index[ws]] = clamp_ratio(@ + RatioStep)]

Workspace_shrink_master(S, ws) ==
    [S EXCEPT !._master_ratio[ws][S.layout_index[ws]] = clamp_ratio(@ - RatioStep)]

\* Workspace.increase_gap / decrease_gap: current_layout.gap moves by step (2)
Workspace_increase_gap(S, ws) ==
    [S EXCEPT !._gap[ws][S.layout_index[ws]] = clamp_gap(@ + GapStep)]

\* Variant: the gap is written without passing the setter.
Workspace_decrease_gap_unclamped(S, ws) ==
    [S EXCEPT !._gap[ws][S.layout_index[ws]] = @ - GapStep]

Workspace_decrease_gap(S, ws) ==
    [S EXCEPT !._gap[ws][S.layout_index[ws]] = clamp_gap(@ - GapStep)]

\* current_layout.master_ratio = value; current_layout.gap = value
set_master_ratio(S, ws, value) ==
    [S EXCEPT !._master_ratio[ws][S.layout_index[ws]] = clamp_ratio(value)]

set_gap(S, ws, value) ==
    [S EXCEPT !._gap[ws][S.layout_index[ws]] = clamp_gap(value)]

next_layout(S, ws) == [S EXCEPT !.layout_index[ws] = (@ + 1) % NumLayouts]

\* one window of the tiling loop of retile: restored if it is minimized or
\* maximized, then moved and resized
place_window(S, h, r) ==
    IF h \notin S.valid THEN S
    ELSE move_resize(IF S.showing[h] # "normal" THEN show_window_restore(S, h) ELSE S, h, r)

RECURSIVE reapply_each(_, _, _, _)
reapply_each(S, wins, i, full) ==
    IF i > Len(wins) THEN S
    ELSE reapply_each(reapply_fullscreen(S, wins[i], full), wins, i + 1, full)

RECURSIVE place_each(_, _, _, _)
place_each(S, wins, rects, i) ==
    IF i > Len(wins) THEN S
    ELSE place_each(place_window(S, wins[i], rects[i]), wins, rects, i + 1)

\* the end of retile: nothing to tile, a layout that returned the wrong
\* number of rects, or the loop over zip(tileable_wins, rects)
place_tileable(S, wins, rects) ==
    IF Len(wins) = 0 \/ Len(rects) # Len(wins) THEN S ELSE place_each(S, wins, rects, 1)

\* Variant: the layout is applied to the floating windows too.
Workspace_retile_all_windows(S, ws, work, full) ==
    IF S.raised \/ S.tiled[ws] = <<>> THEN S
    ELSE LET IsFs(h) == h \in S.fullscreen
             NotFs(h) == h \notin S.fullscreen
             fullscreen_wins == SelectSeq(S.tiled[ws], IsFs)
             tileable_wins == SelectSeq(all_windows(S, ws), NotFs)
         IN  place_tileable(reapply_each(S, fullscreen_wins, 1, full), tileable_wins,
                            current_arrange(S, ws, Len(tileable_wins), work))

Workspace_retile(S, ws, work, full) ==
    IF S.raised \/ S.tiled[ws] = <<>> THEN S
    ELSE LET IsFs(h) == h \in S.fullscreen
             NotFs(h) == h \notin S.fullscreen
             fullscreen_wins == SelectSeq(S.tiled[ws], IsFs)
             tileable_wins == SelectSeq(S.tiled[ws], NotFs)
         IN  place_tileable(reapply_each(S, fullscreen_wins, 1, full), tileable_wins,
                            current_arrange(S, ws, Len(tileable_wins), work))

\* One window of hide_all_windows.  The position is recorded before the
\* arguments of set_window_pos are evaluated, so the AttributeError on
\* win32.HWND_BOTTOM leaves the entry behind and the window where it was.
hide_one_window(S, ws, h) ==
    IF h \notin S.valid THEN S
    ELSE IF h \in S.fullscreen THEN suspend_fullscreen(S, h)
    ELSE LET r == S.rect[h]
             S1 == [S EXCEPT !.saved[ws][h] = <<r[1], r[2], r[3] - r[1], r[4] - r[2]>>]
         IN  IF HWND_BOTTOM_defined
             THEN set_window_pos(S1, h, OFFSCREEN, OFFSCREEN, 0, 0, FALSE, TRUE, "bottom")
             ELSE Raise(S1)

RECURSIVE hide_each(_, _, _, _)
hide_each(S, ws, wins, i) ==
    IF S.raised \/ i > Len(wins) THEN S
    ELSE hide_each(hide_one_window(S, ws, wins[i]), ws, wins, i + 1)

hide_all_windows(S, ws) == hide_each(S, ws, all_windows(S, ws), 1)

show_one_window(S, ws, h) ==
    IF h \notin S.valid THEN S
    ELSE IF h \in S.fullscreen THEN show_window_restore(S, h)
    ELSE LET sv == S.saved[ws][h]
         IN  IF sv # NoPos
             THEN set_window_pos([S EXCEPT !.saved[ws][h] = NoPos],
                                 h, sv[1], sv[2], sv[3], sv[4], FALSE, FALSE, "top")
             ELSE set_window_pos(IF S.showing[h] = "minimized"
                                 THEN show_window_restore(S, h) ELSE S,
                                 h, 0, 0, 0, 0, TRUE, TRUE, "top")

RECURSIVE show_each(_, _, _, _)
show_each(S, ws, wins, i) ==
    IF S.raised \/ i > Len(wins) THEN S
    ELSE show_each(show_one_window(S, ws, wins[i]), ws, wins, i + 1)

show_all_windows(S, ws) == show_each(S, ws, all_windows(S, ws), 1)

\* ------------------------------------------------------------------------
\* WorkspaceManager (tiling/workspace_manager.py)
\* ------------------------------------------------------------------------
Min(set) == CHOOSE x \in set : \A y \in set : x <= y

suppress_events(S) == [S EXCEPT !.suppress = TRUE]

\* Variant: the call stands after the body instead of in a finally block.
resume_events_unless_raised(S) == IF S.raised THEN S ELSE [S EXCEPT !.suppress = FALSE]

\* runs in the finally blocks, so also when the body raised
resume_events(S) == [S EXCEPT !.suppress = FALSE]

add_suppressed_hwnds(S, hs) == [S EXCEPT !.suppressed = @ \cup hs]

register_suppressed_hwnds(S, wss) ==
    LET hwnds == {h \in UNION {Elems(all_windows(S, ws)) : ws \in wss} : h \in S.valid}
    IN  add_suppressed_hwnds(S, hwnds)

RECURSIVE remove_each(_, _, _, _)
remove_each(S, ws, wins, i) ==
    IF i > Len(wins) THEN S
    ELSE remove_each(Workspace_remove_window(S, ws, wins[i]), ws, wins, i + 1)

\* Variant: the stale handles are dropped, the live ones are not put back.
ensure_windows_tracked_prune_only(S, ws) ==
    IF S.raised THEN S
    ELSE LET IsStale(h) == h \notin S.valid
             stale == SelectSeq(all_windows(S, ws), IsStale)
         IN  remove_each(S, ws, stale, 1)

ensure_windows_tracked(S, ws) ==
    IF S.raised THEN S
    ELSE LET IsStale(h) == h \notin S.valid
             stale == SelectSeq(all_windows(S, ws), IsStale)
             live == {h \in Elems(all_windows(S, ws)) : h \in S.valid}
         IN  remove_each([S EXCEPT !.windows = @ \cup live], ws, stale, 1)

\* monitor mi shows workspace ws
mapped_to(S, ws, mi) == mi \in DOMAIN S.monitor_ws /\ S.monitor_ws[mi] = ws

\* self._monitors[monitor_index] raises IndexError past the monitor list;
\* retiled lists the calls of ws.retile with the rects of monitor mi, each
\* with whether mi showed ws at the call
retile_ws(S, ws, mi) ==
    IF S.raised THEN S
    ELSE IF mi >= S.nmon THEN Raise(S)
    ELSE Workspace_retile([S EXCEPT !.retiled = Append(@, << ws, mi, mapped_to(S, ws, mi) >>)],
                          ws, work_rect(mi), full_rect(mi))

get_active_ws_id(S, mi) == IF mi \in DOMAIN S.monitor_ws THEN S.monitor_ws[mi] ELSE 1

\* Variant: the lookup never finds the workspace.
get_monitor_for_workspace_absent(S, ws) == -1

\* the first monitor, in the insertion order of the dict, showing ws
get_monitor_for_workspace(S, ws) ==
    LET ms == {mi \in DOMAIN S.monitor_ws : S.monitor_ws[mi] = ws}
    IN  IF ms = {} THEN -1 ELSE Min(ms)

\* the first workspace, in id order, containing h (0 = None)
find_window_workspace(S, h) ==
    LET wss == {ws \in 1..S.nws : contains(S, ws, h)}
    IN  IF wss = {} THEN None ELSE Min(wss)

\* one callback of _on_ws_changed: on_workspace_changed of __main__.py
\* prints, a faulty callback raises
ws_callback(S, cb) ==
    IF cb = "faulty" THEN Raise([S EXCEPT !.ws_calls = Append(@, cb)])
    ELSE [S EXCEPT !.ws_calls = Append(@, cb)]

\* for cb in self._on_ws_changed: try: cb(...) except Exception: log
RECURSIVE ws_callback_each(_, _)
ws_callback_each(S, i) ==
    IF i > Len(S.on_ws_changed) THEN S
    ELSE ws_callback_each([ws_callback(S, S.on_ws_changed[i]) EXCEPT !.raised = FALSE],
                          i + 1)

emit_workspace_changed(S, mi, old, new) ==
    IF S.raised THEN S
    ELSE ws_callback_each([S EXCEPT !.ws_emits = Append(@, <<mi, old, new>>)], 1)

\* One statement of a method, skipped when an exception is on its way
\* out of it: ws.is_active = v
set_active(S, ws, v) == IF S.raised THEN S ELSE [S EXCEPT !.active[ws] = v]

\* self._monitor_ws[mi] = ws
set_monitor_ws(S, mi, ws) == IF S.raised THEN S ELSE [S EXCEPT !.monitor_ws[mi] = ws]

\* target_ws.add_window(window)
then_add_window(S, ws, h) == IF S.raised THEN S ELSE Workspace_add_window(S, ws, h, FALSE)

\* mi = get_monitor_for_workspace(ws); if ws.is_active and mi is not None:
\* _retile_ws(ws, mi)
retile_if_shown(S, ws) ==
    LET mi == get_monitor_for_workspace(S, ws)
    IN  IF S.active[ws] /\ mi # -1 THEN retile_ws(S, ws, mi) ELSE S

swap_workspaces_between_monitors(S, monitor_a, monitor_b) ==
    LET ws_a == S.monitor_ws[monitor_a]
        ws_b == S.monitor_ws[monitor_b]
        S1 == register_suppressed_hwnds(suppress_events(S), {ws_a, ws_b})
        S2 == hide_all_windows(hide_all_windows(S1, ws_a), ws_b)
        S3 == set_monitor_ws(set_monitor_ws(S2, monitor_a, ws_b), monitor_b, ws_a)
        S4 == show_all_windows(show_all_windows(S3, ws_a), ws_b)
        S5 == ensure_windows_tracked(ensure_windows_tracked(S4, ws_a), ws_b)
        S6 == resume_events(S5)
        S7 == retile_ws(retile_ws(S6, ws_b, monitor_a), ws_a, monitor_b)
        S8 == emit_workspace_changed(S7, monitor_a, ws_a, ws_b)
        S9 == emit_workspace_changed(S8, monitor_b, ws_b, ws_a)
    IN  Return(S9, "true")

\* Variant: a switch to the workspace the monitor already shows is
\* carried out and reported like any other.
switch_workspace_reports_same(S, target_ws_id, monitor_index) ==
    IF target_ws_id \notin 1..S.nws THEN Return(S, "false")
    ELSE IF monitor_index \notin DOMAIN S.monitor_ws THEN Return(S, "false")
    ELSE LET current_ws_id == S.monitor_ws[monitor_index]
             S1 == register_suppressed_hwnds(S, {current_ws_id, target_ws_id})
             S2 == retile_ws(S1, target_ws_id, monitor_index)
         IN  Return(emit_workspace_changed(S2, monitor_index, current_ws_id, target_ws_id),
                    "true")

switch_workspace(S, target_ws_id, monitor_index) ==
    IF target_ws_id \notin 1..S.nws THEN Return(S, "false")
    ELSE IF monitor_index \notin DOMAIN S.monitor_ws THEN Return(S, "false")
    ELSE LET current_ws_id == S.monitor_ws[monitor_index]
             target_monitor == get_monitor_for_workspace(S, target_ws_id)
         IN  IF current_ws_id = target_ws_id THEN Return(S, "false")
             ELSE IF target_monitor # -1 /\ target_monitor # monitor_index
             THEN swap_workspaces_between_monitors(S, monitor_index, target_monitor)
             ELSE LET S1 == register_suppressed_hwnds(suppress_events(S),
                                                      {current_ws_id, target_ws_id})
                      S2 == hide_all_windows(S1, current_ws_id)
                      S3 == set_active(S2, current_ws_id, FALSE)
                      S4 == show_all_windows(S3, target_ws_id)
                      S5 == set_active(S4, target_ws_id, TRUE)
                      S6 == resume_events(ensure_windows_tracked(S5, target_ws_id))
                      S7 == set_monitor_ws(S6, monitor_index, target_ws_id)
                      S8 == retile_ws(S7, target_ws_id, monitor_index)
                      S9 == emit_workspace_changed(S8, monitor_index, current_ws_id,
                                                   target_ws_id)
                  IN  Return(S9, "true")

add_window(S, h, monitor_index, fl) ==
    IF \E ws \in 1..S.nws : contains(S, ws, h) THEN Return(S, "false")
    ELSE IF monitor_index >= S.nmon THEN Raise(S)
    ELSE IF is_native_fullscreen(S, h, full_rect(monitor_index)) THEN Return(S, "false")
    ELSE LET ws == get_active_ws_id(S, monitor_index)
             S1 == Workspace_add_window(S, ws, h, fl)
         IN  Return(IF S1.active[ws] /\ ~fl THEN retile_ws(S1, ws, monitor_index) ELSE S1,
                    "true")

remove_window(S, h) ==
    LET ws == find_window_workspace(S, h)
    IN  IF ws = None THEN Return(S, "false")
        ELSE Return(retile_if_shown(Workspace_remove_window(S, ws, h), ws), "true")

\* Variant: the handle is registered in suppressed_hwnds before the checks.
move_window_to_workspace_registers_first(S, h, target_ws_id) ==
    LET S1 == add_suppressed_hwnds(S, {h})
        source_ws == find_window_workspace(S1, h)
    IN  IF target_ws_id \notin 1..S1.nws THEN Return(S1, "false")
        ELSE IF contains(S1, target_ws_id, h) THEN Return(S1, "false")
        ELSE IF source_ws = None THEN Return(S1, "false")
        ELSE Return(Workspace_add_window(Workspace_remove_window(S1, source_ws, h),
                                         target_ws_id, h, FALSE), "true")

\* the end of the hidden branch of move_window_to_workspace: the window
\* stays tracked
keep_tracked(S, h) ==
    IF S.raised \/ h \notin S.valid THEN S ELSE [S EXCEPT !.windows = @ \cup {h}]

\* move_window_to_workspace once the target lists the window: retile the
\* target if it is shown, else hide the window under suppression
settle_in_target(S, h, target_ws_id) ==
    IF S.raised THEN S
    ELSE IF S.active[target_ws_id] THEN retile_if_shown(S, target_ws_id)
    ELSE keep_tracked(resume_events(hide_one_window(suppress_events(S), target_ws_id, h)),
                      h)

move_window_to_workspace(S, h, target_ws_id) ==
    IF target_ws_id \notin 1..S.nws THEN Return(S, "false")
    ELSE IF contains(S, target_ws_id, h) THEN Return(S, "false")
    ELSE IF find_window_workspace(S, h) = None THEN Return(S, "false")
    ELSE LET source_ws == find_window_workspace(S, h)
             S1 == add_suppressed_hwnds(S, {h})
             S2 == Workspace_remove_window(S1, source_ws, h)
             S3 == retile_if_shown(S2, source_ws)
             S4 == then_add_window(S3, target_ws_id, h)
             S5 == settle_in_target(S4, h, target_ws_id)
         IN  Return(S5, "true")

move_window_to_next_monitor(S, h) ==
    IF S.nmon < 2 THEN Return(S, "false")
    ELSE IF find_window_workspace(S, h) = None THEN Return(S, "false")
    ELSE LET source_ws == find_window_workspace(S, h)
             source_mi == get_monitor_for_workspace(S, source_ws)
             next_mi == (source_mi + 1) % S.nmon
             target_ws == get_active_ws_id(S, next_mi)
         IN  IF source_mi = -1 THEN Return(S, "false")
             ELSE LET S1 == retile_ws(Workspace_remove_window(S, source_ws, h),
                                      source_ws, source_mi)
                      S2 == then_add_window(S1, target_ws, h)
                  IN  Return(retile_ws(S2, target_ws, next_mi), "true")

\* WorkspaceManager.retile(monitor_index)
retile(S, mi) ==
    LET ws == get_active_ws_id(S, mi)
    IN  IF S.active[ws] THEN retile_ws(S, ws, mi) ELSE S

RECURSIVE retile_all_from(_, _)
retile_all_from(S, mi) ==
    IF S.raised \/ mi >= MaxMonitors + 1 THEN S
    ELSE retile_all_from(IF mi \in DOMAIN S.monitor_ws
                         THEN retile_ws(S, S.monitor_ws[mi], mi) ELSE S, mi + 1)

retile_all(S) == retile_all_from(S, 0)

RECURSIVE compress_from(_, _)
compress_from(S, mi) ==
    IF S.raised \/ mi >= MaxMonitors + 1 THEN S
    ELSE IF mi \in DOMAIN S.monitor_ws /\ mi >= S.nmon
    THEN LET ws == S.monitor_ws[mi]
             S1 == [S EXCEPT !.monitor_ws = [k \in (DOMAIN @) \ {mi} |-> @[k]],
                             !.active[ws] = FALSE]
         IN  compress_from(hide_all_windows(S1, ws), mi + 1)
    ELSE compress_from(S, mi + 1)

\* get_monitors() detected n monitors
refresh_monitors(S, n) ==
    IF n = 0 THEN S
    ELSE LET S1 == suppress_events([S EXCEPT !.nmon = n])
             S2 == resume_events(compress_from(S1, 0))
         IN  retile_all(S2)

\* restore_all_windows, the first loop over a workspace: fullscreen is left
RECURSIVE exit_each(_, _, _)
exit_each(S, wins, i) ==
    IF i > Len(wins) THEN S
    ELSE exit_each(IF wins[i] \in S.valid /\ wins[i] \in S.fullscreen
                   THEN exit_fullscreen(S, wins[i]) ELSE S, wins, i + 1)

\* restore_all_windows, one window of an inactive workspace
restore_one_window(S, ws, h) ==
    IF h \notin S.valid THEN S
    ELSE IF S.saved[ws][h] # NoPos
    THEN set_window_pos([S EXCEPT !.saved[ws][h] = NoPos], h, S.saved[ws][h][1],
                        S.saved[ws][h][2], S.saved[ws][h][3], S.saved[ws][h][4],
                        FALSE, FALSE, "top")
    ELSE show_window_restore(S, h)

RECURSIVE restore_each(_, _, _, _)
restore_each(S, ws, wins, i) ==
    IF i > Len(wins) THEN S
    ELSE restore_each(restore_one_window(S, ws, wins[i]), ws, wins, i + 1)

\* Variant: an active workspace is skipped before its fullscreen windows
\* are looked at.
RECURSIVE restore_workspaces_skips_active(_, _)
restore_workspaces_skips_active(S, ws) ==
    IF ws > S.nws THEN S
    ELSE restore_workspaces_skips_active(
             IF S.active[ws] THEN S
             ELSE restore_each(exit_each(S, all_windows(S, ws), 1), ws,
                               all_windows(S, ws), 1),
             ws + 1)

RECURSIVE restore_workspaces(_, _)
restore_workspaces(S, ws) ==
    IF ws > S.nws THEN S
    ELSE restore_workspaces(
             IF S.active[ws] THEN exit_each(S, all_windows(S, ws), 1)
             ELSE restore_each(exit_each(S, all_windows(S, ws), 1), ws,
                               all_windows(S, ws), 1),
             ws + 1)

restore_all_windows(S) ==
    [resume_events(restore_workspaces(suppress_events(S), 1)) EXCEPT !.ret = "none"]

\* ------------------------------------------------------------------------
\* The workspace handler subscribed in __main__.py
\* ------------------------------------------------------------------------
\* Variant: the window is removed whatever workspace lists it.
on_window_removed_unguarded(S, h) == remove_window(S, h)

\* the WINDOW_REMOVED branch: a window of an inactive workspace stays
on_window_removed(S, h) ==
    IF find_window_workspace(S, h) # None /\ ~S.active[find_window_workspace(S, h)]
    THEN S
    ELSE remove_window(S, h)

\* Variant: the workspace of the window is not recorded.
on_window_minimized_unrecorded(S, h) == remove_window(S, h)

\* the WINDOW_MINIMIZED branch: the workspace of the window is recorded in
\* _minimized_origins, then the window is removed
on_window_minimized(S, h) ==
    IF find_window_workspace(S, h) # None
    THEN remove_window([S EXCEPT !.origins[h] = find_window_workspace(S, h)], h)
    ELSE remove_window(S, h)

workspace_handler(S, ev, h) ==
    IF ev = "window_added" THEN add_window(S, h, 0, FALSE)
    ELSE IF ev = "window_removed" THEN on_window_removed(S, h)
    ELSE IF ev = "window_restored"
    THEN LET ws == find_window_workspace(S, h)
             origin_ws_id == S.origins[h]
         IN  IF ws = None
             THEN IF origin_ws_id # None
                  THEN LET S1 == Workspace_add_window([S EXCEPT !.origins[h] = None],
                                                      origin_ws_id, h, FALSE)
                           mi == get_monitor_for_workspace(S1, origin_ws_id)
                       IN  IF S1.active[origin_ws_id]
                           THEN (IF mi # -1 THEN retile(S1, mi) ELSE S1)
                           ELSE resume_events(show_window_hide(suppress_events(S1), h))
                  ELSE add_window(S, h, 0, FALSE)
             ELSE LET mi == get_monitor_for_workspace(S, ws)
                  IN  IF mi # -1 THEN retile(S, mi) ELSE S
    ELSE IF ev = "window_minimized" THEN on_window_minimized(S, h)
    ELSE S

\* ------------------------------------------------------------------------
\* WindowManager (core/manager.py)
\* ------------------------------------------------------------------------
\* _emit: the subscribers run synchronously; an exception of a subscriber
\* is logged and swallowed
HandledEvents == {"window_added", "window_removed", "window_restored", "window_minimized"}

\* self._subscribers[event]: the workspace handler is subscribed with on()
\* to the four events it handles, every other callback with on_all()
subscribers_of(S, ev) ==
    SelectSeq(S.subscribers, LAMBDA cb : cb # "workspace_handler" \/ ev \in HandledEvents)

\* cb(event, window, self): on_event of __main__.py prints, a faulty
\* subscriber raises
call_subscriber(S, cb, ev, h) ==
    IF cb = "workspace_handler"
    THEN workspace_handler([S EXCEPT !.calls = Append(@, <<cb, ev, h>>)], ev, h)
    ELSE IF cb = "faulty" THEN Raise([S EXCEPT !.calls = Append(@, <<cb, ev, h>>)])
    ELSE [S EXCEPT !.calls = Append(@, <<cb, ev, h>>)]

\* Variant: the exception of a subscriber leaves the loop over the
\* subscribers.
RECURSIVE emit_each_unguarded(_, _, _, _, _)
emit_each_unguarded(S, subs, i, ev, h) ==
    IF S.raised \/ i > Len(subs) THEN S
    ELSE emit_each_unguarded(call_subscriber(S, subs[i], ev, h), subs, i + 1, ev, h)

\* for cb in self._subscribers[event]: try: cb(...) except Exception: log
RECURSIVE emit_each(_, _, _, _, _)
emit_each(S, subs, i, ev, h) ==
    IF i > Len(subs) THEN S
    ELSE emit_each([call_subscriber(S, subs[i], ev, h) EXCEPT !.raised = FALSE,
                                                               !.ret = "none"],
                   subs, i + 1, ev, h)

emit(S, ev, h) ==
    emit_each([S EXCEPT !.emits = Append(@, <<ev, h>>)], subscribers_of(S, ev), 1, ev, h)

\* ok: rules 2-10 of the filter on the live attributes of the handle
is_manageable(S, h, ok) == h \in S.valid /\ ok

\* Window(hwnd) is a new object: its fullscreen record starts cleared.  A
\* workspace that still lists the handle keeps its own Window object.
manage(S, h, ok) ==
    IF h \in S.windows THEN S
    ELSE IF ~is_manageable(S, h, ok) THEN S
    ELSE LET fresh == find_window_workspace(S, h) = None
         IN  emit([S EXCEPT !.windows = @ \cup {h},
                            !.fullscreen = IF fresh THEN @ \ {h} ELSE @],
                  "window_added", h)

\* Variant: the focus is left on the window that is dropped.
unmanage_keeps_focus(S, h) ==
    IF h \notin S.windows THEN S
    ELSE emit([S EXCEPT !.windows = @ \ {h}], "window_removed", h)

unmanage(S, h) ==
    IF h \notin S.windows THEN S
    ELSE emit([S EXCEPT !.windows = @ \ {h},
                        !.focused = IF @ = h THEN None ELSE @],
              "window_removed", h)

handle_show(S, h, ok) ==
    IF S.suppress THEN S
    ELSE IF h \in S.suppressed THEN [S EXCEPT !.suppressed = @ \ {h}]
    ELSE manage(S, h, ok)

\* Variant: the flag is not consulted, the handle is always unmanaged.
handle_destroy_always_unmanage(S, h) ==
    unmanage([S EXCEPT !.suppressed = @ \ {h}], h)

handle_destroy(S, h) ==
    LET S1 == [S EXCEPT !.suppressed = @ \ {h}]
    IN  IF S1.suppress
        THEN [S1 EXCEPT !.windows = @ \ {h},
                        !.focused = IF h \in S1.windows /\ @ = h THEN None ELSE @]
        ELSE unmanage(S1, h)

\* Variant: the per-handle gate is not consumed.
handle_hide_keeps_gate(S, h) ==
    IF S.suppress THEN S
    ELSE IF h \in S.suppressed THEN S
    ELSE unmanage(S, h)

handle_hide(S, h) ==
    IF S.suppress THEN S
    ELSE IF h \in S.suppressed THEN [S EXCEPT !.suppressed = @ \ {h}]
    ELSE unmanage(S, h)

\* the end of _handle_foreground: the focus moves to a managed window
set_focused(S, h) ==
    IF h \in S.windows /\ S.focused # h
    THEN emit([S EXCEPT !.focused = h], "focus_changed", h)
    ELSE S

handle_foreground(S, h, ok) ==
    IF S.suppress THEN S
    ELSE IF h \in S.suppressed THEN S
    ELSE set_focused(IF h \notin S.windows THEN manage(S, h, ok) ELSE S, h)

\* Variant: the global flag is not consulted.
handle_minimize_unflagged(S, h) ==
    IF h \in S.suppressed THEN [S EXCEPT !.suppressed = @ \ {h}]
    ELSE IF h \in S.windows THEN emit(S, "window_minimized", h)
    ELSE S

handle_minimize(S, h) ==
    IF S.suppress THEN S
    ELSE IF h \in S.suppressed THEN [S EXCEPT !.suppressed = @ \ {h}]
    ELSE IF h \in S.windows THEN emit(S, "window_minimized", h)
    ELSE S

\* the end of _handle_restore: a managed window reports its restore
emit_restored(S, h) == IF h \in S.windows THEN emit(S, "window_restored", h) ELSE S

handle_restore(S, h, ok) ==
    IF S.suppress THEN S
    ELSE IF h \in S.suppressed THEN [S EXCEPT !.suppressed = @ \ {h}]
    ELSE emit_restored(IF h \notin S.windows THEN manage(S, h, ok) ELSE S, h)

handle_movesize(S, h) ==
    IF h \in S.windows THEN emit(S, "window_moved", h) ELSE S

handle_title_change(S, h) ==
    IF h \in S.windows THEN emit(S, "title_changed", h) ELSE S

\* ------------------------------------------------------------------------
\* Construction: WindowManager() and WorkspaceManager(workspace_count,
\* monitors), linked by set_window_manager; no window exists yet
\* ------------------------------------------------------------------------
InitialWs(i, n) == IF i + 1 > n THEN 1 ELSE i + 1

\* WindowManager.__init__: not running, no loop thread; the process has
\* received no message and no other thread is inside stop()
NotStarted ==
    /\ lpc = "idle"
    /\ running = FALSE
    /\ loop_thread_id = 0
    /\ queue = <<>>
    /\ quit_flag = {}
    /\ spc = "idle"
    /\ cb_stop = FALSE
    /\ scan_list = <<>>
    /\ posted = 0
    /\ hook_handle = 0
    /\ com = 0
    /\ hotkeys = {}
    /\ next_id = 1
    /\ resize_active = FALSE
    /\ temp_hotkey_ids = {}

\* n workspaces over m monitors, the OS handing out the handles of hs
MainSubscribers == << "workspace_handler", "on_event" >>

MainWsSubscribers == << "on_workspace_changed" >>

\* the managers as constructed, before any callback is registered
Built(hs, n, m) ==
    /\ valid = {}
    /\ rect = [h \in hs |-> ZeroRect]
    /\ decorated = {}
    /\ lowered = {}
    /\ fullscreen = {}
    /\ fs_saved = [h \in hs |-> <<FALSE, ZeroRect, FALSE>>]
    /\ windows = {}
    /\ focused = None
    /\ suppress = FALSE
    /\ suppressed = {}
    /\ nws = n
    /\ nmon = m
    /\ monitor_ws = [i \in 0..(m - 1) |-> InitialWs(i, n)]
    /\ tiled = [ws \in WsIds |-> <<>>]
    /\ floating = [ws \in WsIds |-> <<>>]
    /\ active = [ws \in WsIds |-> \E i \in 0..(m - 1) : InitialWs(i, n) = ws]
    /\ saved = [ws \in WsIds |-> [h \in hs |-> NoPos]]
    /\ origins = [h \in hs |-> None]
    /\ layout_index = [ws \in WsIds |-> 0]
    /\ showing = [h \in hs |-> "normal"]
    /\ hidden = {}
    /\ _master_ratio = [ws \in WsIds |-> [li \in 0..(NumLayouts - 1) |-> default_master_ratio(li)]]
    /\ _gap = [ws \in WsIds |-> [li \in 0..(NumLayouts - 1) |-> default_gap(li)]]

\* main(): the workspace handler, then on_event with on_all; one
\* workspace-changed callback
Constructed(hs, n, m) ==
    /\ subscribers = MainSubscribers
    /\ on_ws_changed = MainWsSubscribers
    /\ Built(hs, n, m)

Init ==
    /\ NotStarted
    /\ \E n \in 1..NumWorkspaces, m \in 1..MaxMonitors : Constructed(Handles, n, m)

\* ------------------------------------------------------------------------
\* The OS: a window is created (an ordinary decorated one, or a borderless
\* one covering monitor 0) or destroyed
\* ------------------------------------------------------------------------
OsCreate(h, game) ==
    /\ h \notin valid
    /\ Commit([Cur EXCEPT !.valid = @ \cup {h},
                          !.rect[h] = IF game THEN to_ltrb(full_rect(0)) ELSE DefaultRect,
                          !.decorated = IF game THEN @ \ {h} ELSE @ \cup {h}])

OsDestroy(h) ==
    /\ h \in valid
    /\ Commit([Cur EXCEPT !.valid = @ \ {h}, !.rect[h] = ZeroRect,
                          !.decorated = @ \ {h}, !.lowered = @ \ {h},
                          !.showing[h] = "normal", !.hidden = @ \ {h}])

\* ------------------------------------------------------------------------
\* WinEvents delivered to _on_win_event
\* ------------------------------------------------------------------------
EvShow(h) == \E ok \in BOOLEAN : Commit(handle_show(Cur, h, ok))

EvDestroy(h) == Commit(handle_destroy(Cur, h))

EvHide(h) == Commit(handle_hide(Cur, h))

EvForeground(h) == \E ok \in BOOLEAN : Commit(handle_foreground(Cur, h, ok))

EvMinimize(h) == Commit(handle_minimize(Cur, h))

EvRestore(h) == \E ok \in BOOLEAN : Commit(handle_restore(Cur, h, ok))

EvMovesize(h) == Commit(handle_movesize(Cur, h))

EvTitleChange(h) == Commit(handle_title_change(Cur, h))

\* ------------------------------------------------------------------------
\* Public operations
\* ------------------------------------------------------------------------
SuppressEvents == Commit(suppress_events(Cur))

ResumeEvents == Commit(resume_events(Cur))

AddWindow(h, mi, fl) == Commit(add_window(Cur, h, mi, fl))

RemoveWindow(h) == Commit(remove_window(Cur, h))

SwitchWorkspace(t, mi) == Commit(switch_workspace(Cur, t, mi))

MoveWindowToWorkspace(h, t) ==
    Commit(move_window_to_workspace(Cur, h, t))

MoveWindowToNextMonitor(h) ==
    Commit(move_window_to_next_monitor(Cur, h))

RefreshMonitors(n) == Commit(refresh_monitors(Cur, n))

Next ==
    \/ \E h \in Handles : OsCreate(h, FALSE)
    \/ \E h \in Handles : OsDestroy(h)
    \/ \E h \in Handles : EvShow(h)
    \/ \E h \in Handles : EvDestroy(h)
    \/ \E h \in Handles : EvHide(h)
    \/ \E h \in Handles : EvForeground(h)
    \/ \E h \in Handles : EvMinimize(h)
    \/ \E h \in Handles : EvRestore(h)
    \/ \E h \in Handles : EvMovesize(h)
    \/ \E h \in Handles : EvTitleChange(h)
    \/ SuppressEvents
    \/ ResumeEvents
    \/ \E h \in Handles, mi \in 0..(MaxMonitors - 1), fl \in BOOLEAN : AddWindow(h, mi, fl)
    \/ \E h \in Handles : RemoveWindow(h)
    \/ \E t \in 0..NumWorkspaces, mi \in 0..(MaxMonitors - 1) : SwitchWorkspace(t, mi)
    \/ \E h \in Handles, t \in 0..NumWorkspaces : MoveWindowToWorkspace(h, t)
    \/ \E h \in Handles : MoveWindowToNextMonitor(h)
    \/ \E n \in 0..MaxMonitors : RefreshMonitors(n)

Spec == Init /\ [][Next]_vars

TypeOK ==
    /\ valid \subseteq DOMAIN rect
    /\ windows \subseteq DOMAIN rect
    /\ focused \in DOMAIN rect \cup {None}
    /\ suppress \in BOOLEAN
    /\ nmon \in 1..MaxMonitors
    /\ running \in BOOLEAN
    /\ \A ws \in WsIds : layout_index[ws] \in 0..(NumLayouts - 1)
    /\ \A h \in DOMAIN rect : showing[h] \in {"normal", "minimized", "maximized"}
    /\ hidden \subseteq DOMAIN rect

\* ------------------------------------------------------------------------
\* Directional moves (tiling/directional.py) and the commands that use
\* them (core/commands.py)
\* ------------------------------------------------------------------------
Abs(a) == IF a < 0 THEN 0 - a ELSE a

RECURSIVE nearest_each_any(_, _, _, _, _, _, _)
RECURSIVE nearest_each(_, _, _, _, _, _, _)

Directions == {"left", "right", "up", "down"}

opposite(d) ==
    IF d = "left" THEN "right" ELSE IF d = "right" THEN "left"
    ELSE IF d = "up" THEN "down" ELSE "up"

_get_window_center(S, h) ==
    IF h \notin S.valid THEN <<0, 0>>
    ELSE << (S.rect[h][1] + S.rect[h][3]) \div 2, (S.rect[h][2] + S.rect[h][4]) \div 2 >>

\* Variant: the loop does not skip candidates whose OS window is gone.
nearest_each_any(S, fc, f, candidates, d, i, best) ==
    IF i > Len(candidates) THEN best[1]
    ELSE LET cc == _get_window_center(S, candidates[i])
             dx == cc[1] - fc[1]
             dy == cc[2] - fc[2]
             in_direction ==
                IF d = "left" THEN dx < 0
                ELSE IF d = "right" THEN dx > 0
                ELSE IF d = "up" THEN dy < 0
                ELSE dy > 0
             primary_dist == IF d \in {"left", "right"} THEN Abs(dx) ELSE Abs(dy)
             secondary_dist == IF d \in {"left", "right"} THEN Abs(dy) ELSE Abs(dx)
         IN  IF candidates[i] = f \/ ~in_direction
             THEN nearest_each_any(S, fc, f, candidates, d, i + 1, best)
             ELSE IF \/ best[1] = None
                     \/ primary_dist < best[2]
                     \/ primary_dist = best[2] /\ secondary_dist < best[3]
             THEN nearest_each_any(S, fc, f, candidates, d, i + 1,
                                   << candidates[i], primary_dist, secondary_dist >>)
             ELSE nearest_each_any(S, fc, f, candidates, d, i + 1, best)

\* the loop over the candidates from the i-th on; best is << best,
\* best_primary, best_secondary >>, the distances being infinite while best
\* is None
nearest_each(S, fc, f, candidates, d, i, best) ==
    IF i > Len(candidates) THEN best[1]
    ELSE LET cc == _get_window_center(S, candidates[i])
             dx == cc[1] - fc[1]
             dy == cc[2] - fc[2]
             in_direction ==
                IF d = "left" THEN dx < 0
                ELSE IF d = "right" THEN dx > 0
                ELSE IF d = "up" THEN dy < 0
                ELSE dy > 0
             primary_dist == IF d \in {"left", "right"} THEN Abs(dx) ELSE Abs(dy)
             secondary_dist == IF d \in {"left", "right"} THEN Abs(dy) ELSE Abs(dx)
         IN  IF candidates[i] = f \/ candidates[i] \notin S.valid \/ ~in_direction
             THEN nearest_each(S, fc, f, candidates, d, i + 1, best)
             ELSE IF \/ best[1] = None
                     \/ primary_dist < best[2]
                     \/ primary_dist = best[2] /\ secondary_dist < best[3]
             THEN nearest_each(S, fc, f, candidates, d, i + 1,
                               << candidates[i], primary_dist, secondary_dist >>)
             ELSE nearest_each(S, fc, f, candidates, d, i + 1, best)

find_nearest_window(S, f, candidates, d) ==
    IF f \notin S.valid THEN None
    ELSE nearest_each(S, _get_window_center(S, f), f, candidates, d, 1, << None, 0, 0 >>)

IndexOf(s, x) == CHOOSE i \in 1..Len(s) : s[i] = x /\ \A j \in 1..(i - 1) : s[j] # x

\* Variant: the two assignments of the swap run one after the other.
swap_direction_overwrites(S, ws, f, d) ==
    LET target == find_nearest_window(S, f, S.tiled[ws], d)
    IN  IF target = None \/ ~InSeq(f, S.tiled[ws]) THEN Return(S, "none")
        ELSE LET src_idx == IndexOf(S.tiled[ws], f)
                 tgt_idx == IndexOf(S.tiled[ws], target)
             IN  Return([S EXCEPT !.tiled[ws] = [@ EXCEPT ![src_idx] = target]],
                        "swapped")

\* swap_direction on the tiled list of ws; ret is "swapped" or "none"
swap_direction(S, ws, f, d) ==
    LET target == find_nearest_window(S, f, S.tiled[ws], d)
    IN  IF target = None \/ ~InSeq(f, S.tiled[ws]) THEN Return(S, "none")
        ELSE LET src_idx == IndexOf(S.tiled[ws], f)
                 tgt_idx == IndexOf(S.tiled[ws], target)
             IN  Return([S EXCEPT !.tiled[ws] = [@ EXCEPT ![src_idx] = target,
                                                         ![tgt_idx] = f]],
                        "swapped")

\* Workspace.swap_master: the first two tiled windows change places
Workspace_swap_master(S, ws) ==
    IF Len(S.tiled[ws]) < 2 THEN S
    ELSE [S EXCEPT !.tiled[ws] = [i \in 1..Len(S.tiled[ws]) |->
                                    IF i = 1 THEN S.tiled[ws][2]
                                    ELSE IF i = 2 THEN S.tiled[ws][1]
                                    ELSE S.tiled[ws][i]]]

\* Workspace.swap_with_master: window h changes places with the master
Workspace_swap_with_master(S, ws, h) ==
    IF ~InSeq(h, S.tiled[ws]) THEN S
    ELSE IF IndexOf(S.tiled[ws], h) = 1 \/ Len(S.tiled[ws]) < 2 THEN S
    ELSE [S EXCEPT !.tiled[ws] = [i \in 1..Len(S.tiled[ws]) |->
                                    IF i = 1 THEN h
                                    ELSE IF i = IndexOf(S.tiled[ws], h) THEN S.tiled[ws][1]
                                    ELSE S.tiled[ws][i]]]

\* Variant: the last window is inserted at the front without being popped.
Workspace_rotate_next_keeps_last(S, ws) ==
    IF Len(S.tiled[ws]) < 2 THEN S
    ELSE [S EXCEPT !.tiled[ws] = << S.tiled[ws][Len(S.tiled[ws])] >> \o S.tiled[ws]]

\* Workspace.rotate_next: pop() the last window and insert it at index 0
Workspace_rotate_next(S, ws) ==
    IF Len(S.tiled[ws]) < 2 THEN S
    ELSE [S EXCEPT !.tiled[ws] = << S.tiled[ws][Len(S.tiled[ws])] >>
                                 \o SubSeq(S.tiled[ws], 1, Len(S.tiled[ws]) - 1)]

\* Workspace.rotate_prev: pop(0) the first window and append it
Workspace_rotate_prev(S, ws) ==
    IF Len(S.tiled[ws]) < 2 THEN S
    ELSE [S EXCEPT !.tiled[ws] = Tail(S.tiled[ws]) \o << Head(S.tiled[ws]) >>]

\* the swap_master command: the focused window is promoted in its
\* workspace, which is retiled if a monitor shows it
promote_and_retile(S, ws) ==
    IF get_monitor_for_workspace(S, ws) # -1
    THEN retile(Workspace_swap_with_master(S, ws, S.focused), get_monitor_for_workspace(S, ws))
    ELSE Workspace_swap_with_master(S, ws, S.focused)

cmd_swap_master(S) ==
    IF S.focused = None THEN S
    ELSE IF find_window_workspace(S, S.focused) = None THEN S
    ELSE promote_and_retile(S, find_window_workspace(S, S.focused))

\* the rotate_next and rotate_prev commands: the workspace of monitor 0,
\* then retile()
cmd_rotate_next(S) == retile(Workspace_rotate_next(S, get_active_ws_id(S, 0)), 0)

cmd_rotate_prev(S) == retile(Workspace_rotate_prev(S, get_active_ws_id(S, 0)), 0)

\* the move_window_<direction> command
move_window_dir(S, d) ==
    IF S.focused = None THEN S
    ELSE LET ws == find_window_workspace(S, S.focused)
         IN  IF ws = None THEN S
             ELSE LET S1 == swap_direction(S, ws, S.focused, d)
                      mi == get_monitor_for_workspace(S1, ws)
                  IN  IF S1.ret = "swapped" /\ mi # -1 THEN retile(S1, mi) ELSE S1

\* the next_layout command: the workspace of monitor 0, then retile()
cmd_next_layout(S) == retile(next_layout(S, get_active_ws_id(S, 0)), 0)

\* the grow_master, shrink_master, increase_gap and decrease_gap commands:
\* the workspace of monitor 0, then retile()
cmd_grow_master(S) == retile(Workspace_grow_master(S, get_active_ws_id(S, 0)), 0)

cmd_shrink_master(S) == retile(Workspace_shrink_master(S, get_active_ws_id(S, 0)), 0)

cmd_increase_gap(S) == retile(Workspace_increase_gap(S, get_active_ws_id(S, 0)), 0)

cmd_decrease_gap(S) == retile(Workspace_decrease_gap(S, get_active_ws_id(S, 0)), 0)

\* ------------------------------------------------------------------------
\* Operations of the OS and of the public API used by the specifications
\* below
\* ------------------------------------------------------------------------
\* the rect of monitor mi shrunk by d on every side, as the OS reports it
inset_ltrb(mi, d) ==
    << full_rect(mi)[1] + d, full_rect(mi)[2] + d,
       full_rect(mi)[1] + full_rect(mi)[3] - d, full_rect(mi)[2] + full_rect(mi)[4] - d >>

\* a borderless application sizes its own window just inside monitor 0
OsInset(h, d) ==
    /\ h \in valid
    /\ h \notin decorated
    /\ \A ws \in WsIds : ~contains(Cur, ws, h)
    /\ Commit([Cur EXCEPT !.rect[h] = inset_ltrb(0, d)])

OsMinimize(h) ==
    /\ h \in valid
    /\ showing[h] = "normal"
    /\ Commit([Cur EXCEPT !.showing[h] = "minimized"])

OsMaximize(h) ==
    /\ h \in valid
    /\ showing[h] = "normal"
    /\ Commit([Cur EXCEPT !.showing[h] = "maximized"])

\* Window.enter_fullscreen / exit_fullscreen on a window of a workspace
EnterFullscreen(h) ==
    /\ \E ws \in WsIds : contains(Cur, ws, h)
    /\ Commit(enter_fullscreen(Cur, h, full_rect(0)))

ExitFullscreen(h) ==
    /\ \E ws \in WsIds : contains(Cur, ws, h)
    /\ Commit(exit_fullscreen(Cur, h))

CmdMoveWindowDir(d) == Commit(move_window_dir(Cur, d))

CmdNextLayout == Commit(cmd_next_layout(Cur))

CmdRetile == Commit(retile(Cur, 0))

\* ------------------------------------------------------------------------
\* Borderless windows covering a monitor, and ordinary ones, offered to
\* add_window on either monitor
\* ------------------------------------------------------------------------
NumGameHandles == 2

GameHandles == 1..NumGameHandles

GameInit == NotStarted /\ Constructed(GameHandles, NumWorkspaces, MaxMonitors)

GameNext ==
    \/ \E h \in GameHandles, game \in BOOLEAN : OsCreate(h, game)
    \/ \E h \in GameHandles : OsDestroy(h)
    \/ \E h \in GameHandles, d \in {NfTolerance, NfTolerance + 1} : OsInset(h, d)
    \/ \E h \in GameHandles, mi \in 0..(MaxMonitors - 1), fl \in BOOLEAN : AddWindow(h, mi, fl)
    \/ \E h \in GameHandles : RemoveWindow(h)

GameSpec == GameInit /\ [][GameNext]_vars

\* ------------------------------------------------------------------------
\* One workspace on one monitor: windows are added tiled or floating, are
\* minimized, maximized, destroyed and put in fullscreen, and the
\* workspace is retiled under each of its layouts
\* ------------------------------------------------------------------------
NumTileHandles == 2

TileHandles == 1..NumTileHandles

TileInit == NotStarted /\ Constructed(TileHandles, 1, 1)

TileNext ==
    \/ \E h \in TileHandles : OsCreate(h, FALSE)
    \/ \E h \in TileHandles : OsDestroy(h)
    \/ \E h \in TileHandles : OsMinimize(h)
    \/ \E h \in TileHandles : OsMaximize(h)
    \/ \E h \in TileHandles, fl \in BOOLEAN : AddWindow(h, 0, fl)
    \/ \E h \in TileHandles : EnterFullscreen(h)
    \/ \E h \in TileHandles : ExitFullscreen(h)
    \/ CmdNextLayout
    \/ CmdRetile

TileSpec == TileInit /\ [][TileNext]_vars

\* ------------------------------------------------------------------------
\* One workspace on one monitor: windows come to the foreground, which
\* makes them managed, tiled and focused, and the focused window is moved
\* in the four directions under each layout
\* ------------------------------------------------------------------------
NumSwapHandles == 3

SwapHandles == 1..NumSwapHandles

SwapInit == NotStarted /\ Constructed(SwapHandles, 1, 1)

SwapNext ==
    \/ \E h \in SwapHandles : OsCreate(h, FALSE)
    \/ \E h \in SwapHandles : EvForeground(h)
    \/ \E d \in Directions : CmdMoveWindowDir(d)
    \/ CmdNextLayout

SwapSpec == SwapInit /\ [][SwapNext]_vars

\* the same, and windows are destroyed by their applications before the
\* manager hears of it
NearNext ==
    \/ SwapNext
    \/ \E h \in SwapHandles : OsDestroy(h)

NearSpec == SwapInit /\ [][NearNext]_vars

\* the same workspace with floating windows too, and the tiled list
\* reordered by the stack commands and by Workspace.swap_master
CmdSwapMaster == Commit(cmd_swap_master(Cur))

CmdRotateNext == Commit(cmd_rotate_next(Cur))

CmdRotatePrev == Commit(cmd_rotate_prev(Cur))

WorkspaceSwapMaster == Commit(Workspace_swap_master(Cur, monitor_ws[0]))

NumStackHandles == 4

StackHandles == 1..NumStackHandles

StackInit == NotStarted /\ Constructed(StackHandles, 1, 1)

StackNext ==
    \/ \E h \in StackHandles : OsCreate(h, FALSE)
    \/ \E h \in StackHandles : EvForeground(h)
    \/ \E h \in StackHandles : AddWindow(h, 0, TRUE)
    \/ \E d \in Directions : CmdMoveWindowDir(d)
    \/ CmdSwapMaster
    \/ CmdRotateNext
    \/ CmdRotatePrev
    \/ WorkspaceSwapMaster

StackSpec == StackInit /\ [][StackNext]_vars

\* ------------------------------------------------------------------------
\* WindowManager.start() and stop() (core/manager.py), one step per
\* statement that another thread can observe.  The loop thread is the
\* thread that called start(); stop() is called by another thread (the
\* timer thread of test_events.py) or by a callback on the loop thread.
\* ------------------------------------------------------------------------
MaxPosted == 2

LoopTid == 1

\* the handle SetWinEventHook returns when it succeeds
HookHandle == 1

\* HotkeyManager.unregister_all: every id is unregistered, the dict cleared
unregister_all(hks) == {}

\* _scan_existing, one window of the snapshot: the Window object is new
scan_insert(S, h) ==
    emit([S EXCEPT !.windows = @ \cup {h},
                   !.fullscreen = IF find_window_workspace(S, h) = None THEN @ \ {h} ELSE @],
         "window_added", h)

\* the end of _scan_existing: fg is the foreground window of the OS
scan_focus(S, fg) == IF fg \in S.windows THEN [S EXCEPT !.focused = fg] ELSE S

\* start() is entered: co_initialize, then enumerate_manageable_windows()
\* takes its snapshot (ok: the handle passes rules 2-10 of the filter)
StartCalled ==
    /\ lpc = "idle"
    /\ lpc' = "scan"
    /\ \E ok \in [Handles -> BOOLEAN] :
           scan_list' = SelectSeq([i \in 1..NumHandles |-> i],
                                  LAMBDA h : h \in valid /\ ok[h])
    /\ UNCHANGED << fields, running, loop_thread_id, queue, quit_flag, spc, cb_stop,
                    posted >>
    /\ com' = com + 1
    /\ UNCHANGED << hook_handle, hotkeys, next_id, resize_active, temp_hotkey_ids >>

ScanInsert ==
    /\ lpc = "scan"
    /\ scan_list # <<>>
    /\ CommitFields(scan_insert(Cur, Head(scan_list)))
    /\ scan_list' = Tail(scan_list)
    /\ UNCHANGED << lpc, running, loop_thread_id, queue, quit_flag, spc, cb_stop, posted >>
    /\ UNCHANGED res

ScanEnd ==
    /\ lpc = "scan"
    /\ scan_list = <<>>
    /\ \E fg \in Handles \cup {None} : CommitFields(scan_focus(Cur, fg))
    /\ lpc' = "hook"
    /\ UNCHANGED << running, loop_thread_id, queue, quit_flag, spc, cb_stop, scan_list,
                    posted >>
    /\ UNCHANGED res

\* set_win_event_hook returns a handle, or 0 and start() raises RuntimeError
InstallHook ==
    /\ lpc = "hook"
    /\ \E handle_ok \in BOOLEAN :
           /\ lpc' = IF handle_ok THEN "set_running" ELSE "raised"
           /\ hook_handle' = IF handle_ok THEN HookHandle ELSE 0
           /\ com' = IF handle_ok THEN com ELSE com - 1
    /\ UNCHANGED << fields, running, loop_thread_id, queue, quit_flag, spc, cb_stop,
                    scan_list, posted >>
    /\ UNCHANGED << hotkeys, next_id, resize_active, temp_hotkey_ids >>

SetRunning ==
    /\ lpc = "set_running"
    /\ running' = TRUE
    /\ lpc' = "set_thread_id"
    /\ UNCHANGED << fields, loop_thread_id, queue, quit_flag, spc, cb_stop, scan_list,
                    posted >>
    /\ UNCHANGED res

SetLoopThreadId ==
    /\ lpc = "set_thread_id"
    /\ loop_thread_id' = LoopTid
    /\ lpc' = "while"
    /\ UNCHANGED << fields, running, queue, quit_flag, spc, cb_stop, scan_list, posted >>
    /\ UNCHANGED res

\* while self._running
TestRunning ==
    /\ lpc = "while"
    /\ lpc' = IF running THEN "get_message" ELSE "cleanup"
    /\ UNCHANGED << fields, running, loop_thread_id, queue, quit_flag, spc, cb_stop,
                    scan_list, posted >>
    /\ UNCHANGED res

\* GetMessageW blocks while the queue is empty and the thread is not
\* flagged; a posted WM_QUIT and the flag of PostQuitMessage both make it
\* return 0, the flag only once the queue is empty
GetMessage ==
    /\ lpc = "get_message"
    /\ \/ /\ queue # <<>>
          /\ queue' = Tail(queue)
          /\ lpc' = IF Head(queue) = "quit" THEN "cleanup" ELSE "dispatch"
          /\ UNCHANGED quit_flag
       \/ /\ queue = <<>>
          /\ "loop" \in quit_flag
          /\ quit_flag' = quit_flag \ {"loop"}
          /\ lpc' = "cleanup"
          /\ UNCHANGED queue
    /\ UNCHANGED << fields, running, loop_thread_id, spc, cb_stop, scan_list, posted >>
    /\ UNCHANGED res

\* translate_and_dispatch: the OS calls _on_win_event with one event
DispatchWinEvent(h) ==
    /\ lpc = "dispatch"
    /\ \E ok \in BOOLEAN :
       \E R \in { handle_show(Cur, h, ok), handle_destroy(Cur, h), handle_hide(Cur, h),
                  handle_foreground(Cur, h, ok), handle_minimize(Cur, h),
                  handle_restore(Cur, h, ok), handle_movesize(Cur, h),
                  handle_title_change(Cur, h) } : CommitFields(R)
    /\ lpc' = "while"
    /\ UNCHANGED << running, loop_thread_id, queue, quit_flag, spc, cb_stop, scan_list,
                    posted >>
    /\ UNCHANGED res

\* _cleanup(): unregister_all, unhook_win_event, co_uninitialize
Cleanup ==
    /\ lpc = "cleanup"
    /\ lpc' = "returned"
    /\ UNCHANGED << fields, running, loop_thread_id, queue, quit_flag, spc, cb_stop,
                    scan_list, posted >>
    /\ hotkeys' = unregister_all(hotkeys)
    /\ hook_handle' = 0
    /\ com' = com - 1
    /\ UNCHANGED << next_id, resize_active, temp_hotkey_ids >>

\* stop() run by a subscriber during the scan or by a hotkey callback in
\* the loop: both statements run on the loop thread, and PostQuitMessage
\* flags the queue of the thread that calls it
CallbackStop ==
    /\ \/ lpc = "scan" /\ scan_list # <<>> /\ lpc' = lpc
       \/ lpc = "dispatch" /\ lpc' = "while"
    /\ ~cb_stop
    /\ cb_stop' = TRUE
    /\ running' = FALSE
    /\ IF loop_thread_id # 0
       THEN queue' = Append(queue, "quit") /\ UNCHANGED quit_flag
       ELSE quit_flag' = quit_flag \cup {"loop"} /\ UNCHANGED queue
    /\ UNCHANGED << fields, loop_thread_id, spc, scan_list, posted >>
    /\ UNCHANGED res

\* stop() on another thread, first statement: self._running = False
StopClearRunning ==
    /\ lpc # "idle"
    /\ spc = "idle"
    /\ running' = FALSE
    /\ spc' = "cleared"
    /\ UNCHANGED << fields, lpc, loop_thread_id, queue, quit_flag, cb_stop, scan_list,
                    posted >>
    /\ UNCHANGED res

\* stop() on another thread, second statement: post_thread_message to the
\* loop thread if its id is known, else PostQuitMessage, which flags the
\* queue of the calling thread
StopPost ==
    /\ spc = "cleared"
    /\ spc' = "done"
    /\ IF loop_thread_id # 0
       THEN queue' = Append(queue, "quit") /\ UNCHANGED quit_flag
       ELSE quit_flag' = quit_flag \cup {"other"} /\ UNCHANGED queue
    /\ UNCHANGED << fields, lpc, running, loop_thread_id, cb_stop, scan_list, posted >>
    /\ UNCHANGED res

\* the OS queues a WinEvent or a hotkey message for the loop thread
OsPost ==
    /\ lpc \in {"set_running", "set_thread_id", "while", "get_message", "dispatch"}
    /\ posted < MaxPosted
    /\ posted' = posted + 1
    /\ queue' = Append(queue, "msg")
    /\ UNCHANGED << fields, lpc, running, loop_thread_id, quit_flag, spc, cb_stop,
                    scan_list >>
    /\ UNCHANGED res

LoopThread ==
    \/ StartCalled
    \/ ScanInsert
    \/ ScanEnd
    \/ InstallHook
    \/ SetRunning
    \/ SetLoopThreadId
    \/ TestRunning
    \/ GetMessage
    \/ \E h \in Handles : DispatchWinEvent(h)
    \/ Cleanup

LifeNext ==
    \/ \E h \in Handles : OsCreate(h, FALSE)
    \/ \E h \in Handles : OsDestroy(h)
    \/ StartCalled
    \/ ScanInsert
    \/ ScanEnd
    \/ InstallHook
    \/ SetRunning
    \/ SetLoopThreadId
    \/ TestRunning
    \/ GetMessage
    \/ \E h \in Handles : DispatchWinEvent(h)
    \/ Cleanup
    \/ CallbackStop
    \/ StopClearRunning
    \/ StopPost
    \/ OsPost

\* Both threads keep running: a thread that can take its next step takes it.
LifeSpec ==
    Init /\ [][LifeNext]_vars /\ WF_vars(LoopThread) /\ WF_vars(StopPost)

\* ------------------------------------------------------------------------
\* The resources of the loop: main() registers the configured hotkeys
\* before it calls start() (config/hotkeys.py), and the resize-mode hotkey
\* enters and leaves resize mode while the loop runs (core/resize_mode.py)
\* ------------------------------------------------------------------------
NumDefaultHotkeys == 2

\* Left, Right, Up, Down, Escape and Return
NumResizeKeys == 6

\* how many of the registrations of ResizeMode.enter the OS accepts
ResizeOutcomes == {0, NumResizeKeys - 1, NumResizeKeys}

\* HotkeyManager.register called n times, k of the calls accepted by the OS:
\* an accepted call takes the next id, a refused one takes none
registered(first, k) == first..(first + k - 1)

\* register_all_hotkeys(hk_manager, dispatcher), before start()
RegisterAllHotkeys ==
    /\ lpc = "idle"
    /\ next_id = 1
    /\ \E k \in 1..NumDefaultHotkeys :
           /\ hotkeys' = hotkeys \cup registered(next_id, k)
           /\ next_id' = next_id + k
    /\ UNCHANGED << fields, life, hook_handle, com, resize_active, temp_hotkey_ids >>

\* HotkeyManager.dispatch of the resize-mode hotkey: ResizeMode.toggle
\* enters (the six temporary hotkeys are registered) or exits (each id of
\* _temp_hotkey_ids is unregistered)
ResizeModeToggle ==
    /\ lpc = "dispatch"
    /\ hotkeys \ temp_hotkey_ids # {}
    /\ lpc' = "while"
    /\ IF resize_active
       THEN /\ resize_active' = FALSE
            /\ hotkeys' = hotkeys \ temp_hotkey_ids
            /\ temp_hotkey_ids' = {}
            /\ UNCHANGED next_id
       ELSE /\ resize_active' = TRUE
            /\ \E k \in ResizeOutcomes :
                   /\ hotkeys' = hotkeys \cup registered(next_id, k)
                   /\ temp_hotkey_ids' = registered(next_id, k)
                   /\ next_id' = next_id + k
    /\ UNCHANGED << fields, running, loop_thread_id, queue, quit_flag, spc, cb_stop,
                    scan_list, posted, hook_handle, com >>

ResInit == NotStarted /\ Constructed(Handles, 1, 1)

ResNext ==
    \/ LifeNext
    \/ RegisterAllHotkeys
    \/ ResizeModeToggle

ResSpec == ResInit /\ [][ResNext]_vars

\* ------------------------------------------------------------------------
\* The fullscreen methods of Window, called on windows of either kind in
\* any show state
\* ------------------------------------------------------------------------
NumFsHandles == 2

FsHandles == 1..NumFsHandles

WindowEnterFullscreen(h, mi) == Commit(enter_fullscreen(Cur, h, full_rect(mi)))

WindowExitFullscreen(h) == Commit(exit_fullscreen(Cur, h))

WindowSuspendFullscreen(h) == Commit(suspend_fullscreen(Cur, h))

WindowReapplyFullscreen(h, mi) == Commit(reapply_fullscreen(Cur, h, full_rect(mi)))

FsInit == NotStarted /\ Constructed(FsHandles, 1, MaxMonitors)

FsNext ==
    \/ \E h \in FsHandles, game \in BOOLEAN : OsCreate(h, game)
    \/ \E h \in FsHandles : OsDestroy(h)
    \/ \E h \in FsHandles : OsMinimize(h)
    \/ \E h \in FsHandles : OsMaximize(h)
    \/ \E h \in FsHandles, mi \in 0..(MaxMonitors - 1) : WindowEnterFullscreen(h, mi)
    \/ \E h \in FsHandles : WindowExitFullscreen(h)
    \/ \E h \in FsHandles : WindowSuspendFullscreen(h)
    \/ \E h \in FsHandles, mi \in 0..(MaxMonitors - 1) : WindowReapplyFullscreen(h, mi)

FsSpec == FsInit /\ [][FsNext]_vars

\* ------------------------------------------------------------------------
\* The layouts of the workspace on monitor 0: the current layout is chosen
\* while the layouts are as constructed, then its master ratio and gap are
\* moved by the commands and assigned directly
\* ------------------------------------------------------------------------
MaxGap == 8

\* values assigned to master_ratio (hundredths) and to gap
RatioInputs == {-50, 0, 9, 33, 91, 250}

GapInputs == {-3, 0, 1, 7}

MaxCount == 6

\* areas handed to arrange: a tiny one, an odd one away from the origin,
\* and the work area of each monitor
Areas == { Rect(0, 0, 1, 1), Rect(3, 2, 7, 5), Rect(0, 0, 10, 10), work_rect(0), work_rect(1) }

AsConstructed ==
    /\ \A ws \in WsIds, li \in 0..(NumLayouts - 1) :
           _master_ratio[ws][li] = default_master_ratio(li) /\ _gap[ws][li] = default_gap(li)

FreshNextLayout == AsConstructed /\ CmdNextLayout

CmdGrowMaster == Commit(cmd_grow_master(Cur))

CmdShrinkMaster == Commit(cmd_shrink_master(Cur))

CmdIncreaseGap ==
    /\ _gap[monitor_ws[0]][layout_index[monitor_ws[0]]] < MaxGap
    /\ Commit(cmd_increase_gap(Cur))

CmdDecreaseGap == Commit(cmd_decrease_gap(Cur))

SetMasterRatio(value) == Commit(set_master_ratio(Cur, monitor_ws[0], value))

SetGap(value) == Commit(set_gap(Cur, monitor_ws[0], value))

LayoutInit == NotStarted /\ Constructed(Handles, 1, 1)

LayoutNext ==
    \/ FreshNextLayout
    \/ CmdGrowMaster
    \/ CmdShrinkMaster
    \/ CmdIncreaseGap
    \/ CmdDecreaseGap
    \/ \E value \in RatioInputs : SetMasterRatio(value)
    \/ \E value \in GapInputs : SetGap(value)

LayoutSpec == LayoutInit /\ [][LayoutNext]_vars

\* ------------------------------------------------------------------------
\* Callbacks that raise: a faulty subscriber and a faulty workspace-changed
\* callback are registered beside those of main(), at any place of the
\* registration order, and a hotkey callback may raise when it is dispatched
\* ------------------------------------------------------------------------
\* hotkey.callback()
hotkey_callback(S, cb) == IF cb = "faulty" THEN Raise(S) ELSE S

\* HotkeyManager.dispatch(hotkey_id), cb the callback bound to the id
dispatch(S, hks, hotkey_id, cb) ==
    IF hotkey_id \notin hks THEN Return(S, "false")
    ELSE Return([hotkey_callback(S, cb) EXCEPT !.raised = FALSE], "true")

HotkeyPressed(hotkey_id, cb) == Commit(dispatch(Cur, hotkeys, hotkey_id, cb))

SubscriberOrders ==
    { << "faulty", "workspace_handler", "on_event" >>,
      << "workspace_handler", "faulty", "on_event" >>,
      << "workspace_handler", "on_event", "faulty" >> }

WsSubscriberOrders ==
    { << "faulty", "on_workspace_changed" >>, << "on_workspace_changed", "faulty" >> }

IsoInit ==
    /\ NotStarted
    /\ subscribers \in SubscriberOrders
    /\ on_ws_changed \in WsSubscriberOrders
    /\ Built(Handles, NumWorkspaces, 1)

IsoNext ==
    \/ \E h \in Handles : OsCreate(h, FALSE)
    \/ \E h \in Handles : OsDestroy(h)
    \/ \E h \in Handles : EvShow(h)
    \/ \E h \in Handles : EvDestroy(h)
    \/ \E h \in Handles : EvHide(h)
    \/ \E h \in Handles : EvForeground(h)
    \/ \E h \in Handles : EvMinimize(h)
    \/ \E h \in Handles : EvRestore(h)
    \/ \E t \in 1..NumWorkspaces : SwitchWorkspace(t, 0)
    \/ RegisterAllHotkeys
    \/ \E id \in 1..(NumDefaultHotkeys + 1), cb \in {"command", "faulty"} : HotkeyPressed(id, cb)

IsoSpec == IsoInit /\ [][IsoNext]_vars

\* ------------------------------------------------------------------------
\* HotkeyManager and ResizeMode by themselves (core/keybinds.py,
\* core/resize_mode.py): K holds the fields of both objects, ok tells
\* whether the OS accepts a registration
\* ------------------------------------------------------------------------
MaxHotkeyId == 9

CurKeys ==
    [ hotkeys |-> hotkeys, next_id |-> next_id, active |-> resize_active,
      temp |-> temp_hotkey_ids, ret |-> None ]

CommitKeys(K) ==
    /\ hotkeys' = K.hotkeys
    /\ next_id' = K.next_id
    /\ resize_active' = K.active
    /\ temp_hotkey_ids' = K.temp
    /\ UNCHANGED << fields, life, hook_handle, com >>

\* Variant: the counter moves back to the id that was freed.
unregister_frees_id(K, hotkey_id) ==
    IF hotkey_id \notin K.hotkeys THEN [K EXCEPT !.ret = FALSE]
    ELSE [K EXCEPT !.hotkeys = @ \ {hotkey_id}, !.next_id = hotkey_id, !.ret = TRUE]

\* HotkeyManager.unregister(hotkey_id)
unregister(K, hotkey_id) ==
    IF hotkey_id \notin K.hotkeys THEN [K EXCEPT !.ret = FALSE]
    ELSE [K EXCEPT !.hotkeys = @ \ {hotkey_id}, !.ret = TRUE]

\* HotkeyManager.register(modifiers, vk, callback, description)
register(K, ok) ==
    IF ~ok THEN [K EXCEPT !.ret = None]
    ELSE [K EXCEPT !.hotkeys = @ \cup {K.next_id}, !.next_id = @ + 1, !.ret = K.next_id]

\* HotkeyManager.replace(hotkey_id, ...): the old id is dropped, then
\* register
replace(K, hotkey_id, ok) ==
    IF hotkey_id \notin K.hotkeys THEN [K EXCEPT !.ret = None]
    ELSE register([K EXCEPT !.hotkeys = @ \ {hotkey_id}], ok)

\* if hk_id is not None: self._temp_hotkey_ids.append(hk_id)
append_temp(K) == IF K.ret = None THEN K ELSE [K EXCEPT !.temp = @ \cup {K.ret}]

\* the registrations of ResizeMode.enter from the i-th on: Right, Left, Up,
\* Down, Escape, Return; oks[i] tells whether the OS accepts the i-th
RECURSIVE enter_from(_, _, _)
enter_from(K, oks, i) ==
    IF i > NumResizeKeys THEN K
    ELSE enter_from(append_temp(register(K, oks[i])), oks, i + 1)

\* ResizeMode.enter()
ResizeMode_enter(K, oks) ==
    IF K.active THEN [K EXCEPT !.ret = FALSE]
    ELSE [enter_from([K EXCEPT !.active = TRUE, !.temp = {}], oks, 1) EXCEPT !.ret = TRUE]

\* for hk_id in self._temp_hotkey_ids: self._hk_manager.unregister(hk_id)
RECURSIVE unregister_each(_, _)
unregister_each(K, ids) ==
    IF ids = {} THEN K
    ELSE unregister_each(unregister(K, Min(ids)), ids \ {Min(ids)})

\* ResizeMode.exit(); on_exit only logs
ResizeMode_exit(K) ==
    IF ~K.active THEN [K EXCEPT !.ret = None]
    ELSE [unregister_each([K EXCEPT !.active = FALSE], K.temp)
              EXCEPT !.temp = {}, !.ret = None]

\* ResizeMode.toggle()
ResizeMode_toggle(K, oks) ==
    IF K.active THEN ResizeMode_exit(K) ELSE ResizeMode_enter(K, oks)

ResizeDirections == {"wider", "narrower", "taller", "shorter"}

\* the resize_<direction> commands: the master area grows or shrinks unless
\* the layout is Monocle, then retile()
resize_command(S, direction) ==
    IF S.layout_index[get_active_ws_id(S, 0)] = 2 THEN retile(S, 0)
    ELSE IF direction \in {"wider", "taller"} THEN cmd_grow_master(S)
    ELSE cmd_shrink_master(S)

\* _on_resize(direction): dispatcher.execute swallows what the command
\* raises
_on_resize(S, direction) == [resize_command(S, direction) EXCEPT !.raised = FALSE]

\* the callback of an arrow hotkey: if self._active: self._on_resize(d)
_handler(S, act, d) == IF act THEN _on_resize(S, d) ELSE S

\* The callbacks that HotkeyManager.dispatch can find under an id: an id of
\* _temp_hotkey_ids is bound to an arrow handler or to exit, any other
\* registered id to a configured command.
Callbacks(K, hotkey_id) ==
    IF hotkey_id \notin K.hotkeys THEN {}
    ELSE IF hotkey_id \in K.temp THEN ResizeDirections \cup {"exit"}
    ELSE {"enter_resize_mode", "toggle_resize_mode", "exit_resize_mode"}

\* HotkeyManager.dispatch(hotkey_id) for a callback of ResizeMode
dispatch_keys(K, hotkey_id, cb, oks) ==
    IF hotkey_id \notin K.hotkeys THEN [K EXCEPT !.ret = FALSE]
    ELSE IF cb \in {"exit", "exit_resize_mode"} THEN [ResizeMode_exit(K) EXCEPT !.ret = TRUE]
    ELSE IF cb = "enter_resize_mode" THEN [ResizeMode_enter(K, oks) EXCEPT !.ret = TRUE]
    ELSE IF cb = "toggle_resize_mode" THEN [ResizeMode_toggle(K, oks) EXCEPT !.ret = TRUE]
    ELSE [K EXCEPT !.ret = TRUE]

ResizeAccepts == [1..NumResizeKeys -> BOOLEAN]

HasIds(n) == next_id + n <= MaxHotkeyId + 1

Register(ok) == HasIds(1) /\ CommitKeys(register(CurKeys, ok))

Replace(hotkey_id, ok) ==
    HasIds(1) /\ hotkey_id \notin temp_hotkey_ids /\ CommitKeys(replace(CurKeys, hotkey_id, ok))

Unregister(hotkey_id) ==
    hotkey_id \notin temp_hotkey_ids /\ CommitKeys(unregister(CurKeys, hotkey_id))

\* HotkeyManager.unregister_all(), as _cleanup() calls it
UnregisterAll == CommitKeys([CurKeys EXCEPT !.hotkeys = unregister_all(@)])

ResizeModeEnter(oks) == HasIds(NumResizeKeys) /\ CommitKeys(ResizeMode_enter(CurKeys, oks))

ResizeModeExit == CommitKeys(ResizeMode_exit(CurKeys))

\* WM_HOTKEY with hotkey_id is taken from the queue: the id may be stale
DispatchKeys(hotkey_id) ==
    /\ HasIds(NumResizeKeys)
    /\ \E cb \in Callbacks(CurKeys, hotkey_id) \ ResizeDirections, oks \in ResizeAccepts :
           CommitKeys(dispatch_keys(CurKeys, hotkey_id, cb, oks))

DispatchArrow(hotkey_id, d) ==
    /\ hotkey_id \in hotkeys \cap temp_hotkey_ids
    /\ Commit(_handler(Cur, resize_active, d))

DispatchStale(hotkey_id) ==
    /\ hotkey_id \notin hotkeys
    /\ CommitKeys(dispatch_keys(CurKeys, hotkey_id, "exit", [i \in 1..NumResizeKeys |-> TRUE]))

KeysInit == NotStarted /\ Constructed(Handles, 1, 1)

KeysNext ==
    \/ \E ok \in BOOLEAN : Register(ok)
    \/ \E hotkey_id \in 1..MaxHotkeyId, ok \in BOOLEAN : Replace(hotkey_id, ok)
    \/ \E hotkey_id \in 1..MaxHotkeyId : Unregister(hotkey_id)
    \/ UnregisterAll
    \/ \E oks \in ResizeAccepts : ResizeModeEnter(oks)
    \/ ResizeModeExit
    \/ \E hotkey_id \in 1..MaxHotkeyId : DispatchKeys(hotkey_id)
    \/ \E hotkey_id \in 1..MaxHotkeyId, d \in ResizeDirections : DispatchArrow(hotkey_id, d)
    \/ \E hotkey_id \in 1..MaxHotkeyId : DispatchStale(hotkey_id)

KeysSpec == KeysInit /\ [][KeysNext]_vars

\* ------------------------------------------------------------------------
\* Minimize and restore: one monitor and the workspaces of the manager; the
\* windows are shown, minimized and restored by their applications, and the
\* monitor is switched between the workspaces
\* ------------------------------------------------------------------------
NumMinHandles == 2

MinHandles == 1..NumMinHandles

MinInit == NotStarted /\ Constructed(MinHandles, NumWorkspaces, 1)

MinNext ==
    \/ \E h \in MinHandles : OsCreate(h, FALSE)
    \/ \E h \in MinHandles : EvShow(h)
    \/ \E h \in MinHandles : EvMinimize(h)
    \/ \E h \in MinHandles : EvRestore(h)
    \/ \E t \in 1..NumWorkspaces : SwitchWorkspace(t, 0)

MinSpec == MinInit /\ [][MinNext]_vars

\* ------------------------------------------------------------------------
\* Shutdown (__main__.py): one monitor showing workspace 1; windows are
\* added to it, put in fullscreen and moved to the other workspaces, and
\* then start() has returned and main() calls restore_all_windows
\* ------------------------------------------------------------------------
NumShutHandles == 2

ShutHandles == 1..NumShutHandles

RestoreAllWindows ==
    /\ CommitFields(restore_all_windows(Cur))
    /\ lpc' = "returned"
    /\ UNCHANGED << running, loop_thread_id, queue, quit_flag, spc, cb_stop, scan_list,
                    posted >>
    /\ UNCHANGED res

ShutInit ==
    /\ NotStarted
    /\ Constructed(ShutHandles, NumWorkspaces, 1)

ShutNext ==
    /\ lpc = "idle"
    /\ \/ \E h \in ShutHandles : OsCreate(h, FALSE)
       \/ \E h \in ShutHandles : OsDestroy(h)
       \/ \E h \in ShutHandles : AddWindow(h, 0, FALSE)
       \/ \E h \in ShutHandles : EnterFullscreen(h)
       \/ \E h \in ShutHandles, t \in 1..NumWorkspaces : MoveWindowToWorkspace(h, t)
       \/ RestoreAllWindows

ShutSpec == ShutInit /\ [][ShutNext]_vars

\* ------------------------------------------------------------------------
\* The initial scan (core/filter.py, WindowManager._scan_existing): three
\* top-level handles with a class name and a title each.  A string is the
\* sequence of its code points.
\* ------------------------------------------------------------------------
NumScanHandles == 3

ScanHandles == 1..NumScanHandles

Editor == << 69, 100, 105, 116, 111, 114 >>

Browser == << 66, 114, 111, 119, 115, 101, 114 >>

Setup == << 83, 101, 116, 117, 112 >>

Tray == << 84, 114, 97, 121 >>

\* the titles the taskbar window may carry
TrayTitles == { <<>>, Tray, Setup }

class_name == << "Notepad", "Chrome_WidgetWin_1", "Shell_TrayWnd" >>

title(t3) == << Editor, Browser, t3 >>

IGNORED_CLASSES ==
    { "Shell_TrayWnd", "Shell_SecondaryTrayWnd", "Progman", "WorkerW", "DV2ControlHost",
      "Windows.UI.Core.CoreWindow", "NotifyIconOverflowWindow",
      "TopLevelWindowForOverflowXamlIsland", "Shell_InputSwitchTopLevelWindow",
      "MultitaskingViewFrame", "TaskListThumbnailWnd", "ForegroundStaging",
      "EdgeUiInputTopWndClass", "EdgeUiInputWndClass", "NativeHWNDHost",
      "tooltips_class32", "IME", "MSCTFIME UI", "#32768", "#32769", "#32770",
      "TaskManagerWindow" }

\* the members of IGNORED_TITLES a title of the scenario can equal
IGNORED_TITLES == { <<>>, Setup }

\* str.lower() on the letters A-Z
lower(str) == [i \in 1..Len(str) |-> IF str[i] \in 65..90 THEN str[i] + 32 ELSE str[i]]

\* a <= b for two strings: code point by code point, a prefix first
RECURSIVE str_le(_, _)
str_le(a, b) ==
    IF a = <<>> THEN TRUE
    ELSE IF b = <<>> THEN FALSE
    ELSE IF a[1] < b[1] THEN TRUE
    ELSE IF a[1] > b[1] THEN FALSE
    ELSE str_le(Tail(a), Tail(b))

\* sorted(results, key=...): stable, ascending by key
RECURSIVE sorted(_, _)
sorted(results, key) ==
    IF results = <<>> THEN <<>>
    ELSE LET n == Len(results)
             x == results[n]
             out == sorted(SubSeq(results, 1, n - 1), key)
             k == Cardinality({i \in 1..Len(out) : str_le(key[out[i]], key[x])})
         IN  SubSeq(out, 1, k) \o << x >> \o SubSeq(out, k + 1, Len(out))

\* rules 4 and 6 of is_manageable on the class name and the title
passes_class_and_title(cls, ttl) == cls \notin IGNORED_CLASSES /\ ttl \notin IGNORED_TITLES

\* enum_windows calls back in the z-order of the top-level windows
EnumOrders(S) ==
    LET n == Cardinality(S.valid \cap ScanHandles)
    IN  { o \in [1..n -> S.valid \cap ScanHandles] : \A i, j \in 1..n : o[i] = o[j] => i = j }

enumerate_manageable_windows(S, order, cls, ttl) ==
    LET results == SelectSeq(order,
                       LAMBDA h : is_manageable(S, h, passes_class_and_title(cls[h], ttl[h])))
    IN  sorted(results, [h \in ScanHandles |-> lower(ttl[h])])

RECURSIVE scan_each(_, _)
scan_each(S, snapshot) ==
    IF snapshot = <<>> THEN S
    ELSE scan_each(scan_insert(S, Head(snapshot)), Tail(snapshot))

_scan_existing(S, snapshot, fg) == scan_focus(scan_each(S, snapshot), fg)

\* start() up to the installation of the hook: the scan of the windows
\* that exist, fg being the foreground window of the OS
StartScan ==
    /\ lpc = "idle"
    /\ \E order \in EnumOrders(Cur), t3 \in TrayTitles, fg \in ScanHandles \cup {None} :
           CommitFields(_scan_existing(Cur,
               enumerate_manageable_windows(Cur, order, class_name, title(t3)), fg))
    /\ lpc' = "hook"
    /\ UNCHANGED << running, loop_thread_id, queue, quit_flag, spc, cb_stop, scan_list,
                    posted >>
    /\ com' = com + 1
    /\ UNCHANGED << hook_handle, hotkeys, next_id, resize_active, temp_hotkey_ids >>

ScanInit ==
    /\ NotStarted
    /\ \E n \in 1..NumWorkspaces, m \in 1..MaxMonitors : Constructed(ScanHandles, n, m)

ScanNext ==
    \/ \E h \in ScanHandles, game \in BOOLEAN : lpc = "idle" /\ OsCreate(h, game)
    \/ \E h \in ScanHandles : lpc = "idle" /\ OsDestroy(h)
    \/ StartScan
    \/ InstallHook

ScanSpec == ScanInit /\ [][ScanNext]_vars

\* ------------------------------------------------------------------------
\* Properties
\* ------------------------------------------------------------------------
Count(h, s) == Cardinality({i \in 1..Len(s) : s[i] = h})

Memberships(h) == {ws \in WsIds : contains(Cur, ws, h)}

\* the input sets of the entry points
Targets == 0..NumWorkspaces
MonitorArgs == 0..(MaxMonitors - 1)

\* C1: every window is listed by at most one workspace, tiled and floating
\* lists taken together, and at most once in it: the tiled and the floating
\* list of a workspace are disjoint and hold no duplicate, whatever events
\* and operations came before.
C1_WorkspaceUniqueness ==
    \A h \in Handles :
        /\ Cardinality(Memberships(h)) <= 1
        /\ \A ws \in WsIds : Count(h, tiled[ws]) + Count(h, floating[ws]) <= 1

\* A managed window listed by workspace 2 while workspace 2 is shown on no
\* monitor: it was added to workspace 1 and moved by move_window_to_workspace.
C1_Witness ==
    \E h \in windows :
        /\ InSeq(h, tiled[2])
        /\ ~active[2]
        /\ get_monitor_for_workspace(Cur, 2) = -1

\* What an event may not do while it is gated: nothing is emitted and the
\* ManagedSet, the focus and the workspace lists stay as they are.
Untouched(S) ==
    /\ S.emits = <<>>
    /\ S.ws_emits = <<>>
    /\ S.windows = windows
    /\ S.focused = focused
    /\ S.tiled = tiled
    /\ S.floating = floating

\* C2: while suppress_hide_show is set, a hide, show, foreground, minimize
\* or restore event for any handle emits nothing and changes neither the
\* ManagedSet, nor the focus, nor any workspace list.
C2_SuppressedEventsAreNoOps ==
    suppress =>
        \A h \in Handles, ok \in BOOLEAN :
            /\ Untouched(handle_hide(Cur, h))
            /\ Untouched(handle_show(Cur, h, ok))
            /\ Untouched(handle_foreground(Cur, h, ok))
            /\ Untouched(handle_minimize(Cur, h))
            /\ Untouched(handle_restore(Cur, h, ok))

\* The flag is set while a managed, tiled window that is not the focus is
\* outside the per-handle set: without the flag its hide event would unmanage
\* it and its foreground event would move the focus.
C2_Witness ==
    /\ suppress
    /\ \E h \in windows \ suppressed :
        /\ InSeq(h, tiled[1])
        /\ focused # h
        /\ handle_hide(resume_events(Cur), h).emits # <<>>
        /\ handle_foreground(resume_events(Cur), h, TRUE).focused = h

\* The workspaces a switch has just shown: those a monitor maps to now and
\* did not map to before.
JustShown(R) ==
    {R.monitor_ws[m] : m \in {k \in DOMAIN R.monitor_ws \cap DOMAIN monitor_ws :
                                R.monitor_ws[k] # monitor_ws[k]}}

\* C3: when switch_workspace (the monitor swap included) returns True, every
\* window still listed by a workspace it has just shown is a valid window
\* and is in the ManagedSet; the handles that are no windows any more have
\* been dropped from the workspace.
C3_ShownWindowsAreTracked ==
    \A t \in Targets, mi \in MonitorArgs :
        LET R == switch_workspace(Cur, t, mi)
        IN  (~R.raised /\ R.ret = "true") =>
                \A ws \in JustShown(R) :
                    \A h \in Elems(all_windows(R, ws)) :
                        h \in R.valid /\ h \in R.windows

\* A switch that returns True and shows a workspace listing a valid window
\* the ManagedSet had lost: the switch puts it back.
C3_Witness ==
    \E t \in Targets, mi \in MonitorArgs :
        LET R == switch_workspace(Cur, t, mi)
        IN  /\ ~R.raised
            /\ R.ret = "true"
            /\ t \in JustShown(R)
            /\ \E h \in Elems(all_windows(Cur, t)) :
                   h \in valid /\ h \notin windows /\ h \in R.windows

\* The four events that consume the per-handle gate
Consuming(S, h, ok) ==
    { handle_hide(S, h), handle_show(S, h, ok),
      handle_minimize(S, h), handle_restore(S, h, ok) }

NoneRemoved(S) == \A i \in 1..Len(S.emits) : S.emits[i][1] # "window_removed"

Injective(f) == \A a, b \in DOMAIN f : a # b => f[a] # f[b]

\* C5: switch_workspace(t, m), t an existing workspace shown on no monitor
\* and the current workspace c of monitor m holding windows, returns with
\* every valid non-fullscreen window of c at -32000,-32000, lowered in the
\* Z-order, its previous rect in c's saved positions; c inactive, t active,
\* m mapped to t; no WindowRemoved emitted; the ManagedSet unchanged.
C5_SwitchHidesCurrent ==
    \A t \in 1..nws, m \in DOMAIN monitor_ws :
        LET c == monitor_ws[m]
            R == switch_workspace(Cur, t, m)
        IN  (/\ ~active[t]
             /\ get_monitor_for_workspace(Cur, t) = -1
             /\ all_windows(Cur, c) # <<>>) =>
                /\ ~R.raised
                /\ R.ret = "true"
                /\ \A h \in Elems(all_windows(Cur, c)) :
                       (h \in valid /\ h \notin fullscreen) =>
                           /\ R.rect[h][1] = OFFSCREEN
                           /\ R.rect[h][2] = OFFSCREEN
                           /\ h \in R.lowered
                           /\ R.saved[c][h] = from_ltrb(rect[h])
                /\ ~R.active[c]
                /\ R.active[t]
                /\ R.monitor_ws[m] = t
                /\ NoneRemoved(R)
                /\ R.windows = windows

\* The case of C5: a valid, managed, non-fullscreen window tiled in the
\* workspace shown on monitor 0, and an existing workspace shown nowhere.
C5_Witness ==
    \E t \in 1..nws, h \in windows \cap valid :
        /\ ~active[t]
        /\ get_monitor_for_workspace(Cur, t) = -1
        /\ InSeq(h, tiled[monitor_ws[0]])
        /\ h \notin fullscreen
        /\ switch_workspace(Cur, t, 0).raised

\* C6 as stated: in every reachable state no two monitors are mapped to the
\* same workspace.
C6_MapAlwaysInjective == Injective(monitor_ws)

\* C6, amended: constructed with no more monitors than workspaces, the
\* initial map sends monitor i to workspace (i mod N) + 1 and is injective,
\* and every switch_workspace call made on an injective map leaves an
\* injective map.
C6_InjectiveWhenMonitorsFit ==
    /\ \A n \in 1..NumWorkspaces, m \in 1..MaxMonitors :
           m <= n =>
               /\ \A i \in 0..(m - 1) : InitialWs(i, n) = (i % n) + 1
               /\ Injective([i \in 0..(m - 1) |-> InitialWs(i, n)])
    /\ Injective(monitor_ws) =>
           \A t \in Targets, mi \in MonitorArgs :
               Injective(switch_workspace(Cur, t, mi).monitor_ws)

\* Two monitors whose workspaces a switch has exchanged
C6_Witness ==
    /\ nmon = 2
    /\ DOMAIN monitor_ws = {0, 1}
    /\ monitor_ws[0] = 2
    /\ monitor_ws[1] = 1
    /\ switch_workspace(Cur, 1, 0).monitor_ws[0] = 1

\* C7: between operations, also after one that raised part-way, every
\* monitor index has exactly one mapped workspace, and a workspace is
\* active exactly when some monitor is mapped to it.
C7_MapMatchesActiveFlags ==
    /\ DOMAIN monitor_ws = 0..(nmon - 1)
    /\ \A ws \in 1..nws :
           active[ws] <=> \E mi \in DOMAIN monitor_ws : monitor_ws[mi] = ws

\* The case of C7: refresh_monitors has run with a monitor count other than
\* the one the mapping was built for.
C7_Witness == DOMAIN monitor_ws # 0..(nmon - 1)

\* The tiled windows of ws lie where its layout puts them over the work
\* rect of monitor mi
TiledOver(S, ws, mi) ==
    LET wins == S.tiled[ws]
        rects == current_arrange(S, ws, Len(wins), work_rect(mi))
    IN  \A i \in 1..Len(wins) :
            wins[i] \in S.valid => S.rect[wins[i]] = to_ltrb(rects[i])

EmitsFor(S, mi) == Cardinality({i \in 1..Len(S.ws_emits) : S.ws_emits[i][1] = mi})

\* C8: switch_workspace(t, a) with t shown on another monitor b exchanges
\* the workspaces of a and b: a maps to t and b to the former workspace of
\* a, both stay active, each is retiled over the work rect of its new
\* monitor, and workspace-changed is emitted once for a and once for b.
C8_SwapExchangesMonitors ==
    \A t \in 1..nws, a \in DOMAIN monitor_ws :
        LET b == get_monitor_for_workspace(Cur, t)
            c == monitor_ws[a]
            R == switch_workspace(Cur, t, a)
        IN  (b # -1 /\ b # a /\ c # t /\ a < nmon /\ b < nmon) =>
                /\ ~R.raised
                /\ R.ret = "true"
                /\ R.monitor_ws[a] = t
                /\ R.monitor_ws[b] = c
                /\ R.active[t]
                /\ R.active[c]
                /\ TiledOver(R, t, a)
                /\ TiledOver(R, c, b)
                /\ Len(R.ws_emits) = 2
                /\ EmitsFor(R, a) = 1
                /\ EmitsFor(R, b) = 1

\* The case of C8: two monitors showing two workspaces, a valid managed
\* window tiled in one of them, and the switch that asks for the swap.
C8_Witness ==
    /\ nmon = 2
    /\ DOMAIN monitor_ws = {0, 1}
    /\ monitor_ws[0] # monitor_ws[1]
    /\ \E h \in windows \cap valid :
        /\ InSeq(h, tiled[monitor_ws[0]])
        /\ h \notin fullscreen
        /\ switch_workspace(Cur, monitor_ws[1], 0).raised

Last(s) == s[Len(s)]

\* C9: move_window_to_workspace(w, t), w a managed window of an active
\* workspace s and t inactive: w is no longer in s, the tiled order of the
\* others is kept and s is retiled; w is the last element of t.tiled; w is
\* still in the ManagedSet; t's saved positions hold the rect w had before
\* it was hidden; w is off-screen.
C9_MoveToInactiveWorkspace ==
    \A w \in windows \cap valid, t \in 1..nws :
        LET s == find_window_workspace(Cur, w)
            mi == get_monitor_for_workspace(Cur, s)
            R == move_window_to_workspace(Cur, w, t)
        IN  (/\ s # None
             /\ s # t
             /\ active[s]
             /\ mi # -1
             /\ mi < nmon
             /\ ~active[t]
             /\ ~contains(Cur, t, w)
             /\ w \notin fullscreen) =>
                /\ ~R.raised
                /\ R.ret = "true"
                /\ ~contains(R, s, w)
                /\ R.tiled[s] = RemoveFirst(tiled[s], w)
                /\ TiledOver(R, s, mi)
                /\ R.tiled[t] # <<>>
                /\ Last(R.tiled[t]) = w
                /\ w \in R.windows
                /\ R.saved[t][w] = from_ltrb(rect[w])
                /\ R.rect[w][1] = OFFSCREEN
                /\ R.rect[w][2] = OFFSCREEN

\* The case of C9: a valid managed window tiled in the workspace monitor 0
\* shows, and an inactive workspace the move sends it to.
C9_Witness ==
    \E w \in windows \cap valid, t \in 1..nws :
        /\ InSeq(w, tiled[monitor_ws[0]])
        /\ active[monitor_ws[0]]
        /\ ~active[t]
        /\ w \notin fullscreen
        /\ InSeq(w, move_window_to_workspace(Cur, w, t).tiled[t])

Removals(S, h) ==
    Cardinality({i \in 1..Len(S.emits) : S.emits[i] = <<"window_removed", h>>})

\* C10: a destroy event under suppress_hide_show takes the handle out of
\* the ManagedSet, clearing the focus if it was the focused window, emits
\* no WindowRemoved and leaves the workspace lists alone; with the flag
\* clear, a destroy event for a managed handle unmanages it and emits
\* WindowRemoved exactly once.
C10_DestroyUnderSuppression ==
    \A h \in Handles :
        LET R == handle_destroy(Cur, h)
        IN  /\ suppress =>
                /\ R.windows = windows \ {h}
                /\ R.focused = IF focused = h THEN None ELSE focused
                /\ R.emits = <<>>
                /\ R.tiled = tiled
                /\ R.floating = floating
            /\ (~suppress /\ h \in windows) =>
                /\ R.windows = windows \ {h}
                /\ R.focused = IF focused = h THEN None ELSE focused
                /\ Removals(R, h) = 1
                /\ Len(R.emits) = 1

\* The flag is set while the focused window, managed and listed by a
\* workspace, is destroyed: the ManagedSet and the focus lose it, the
\* workspace keeps it.
C10_Witness ==
    /\ suppress
    /\ focused # None
    /\ focused \in windows
    /\ \E ws \in WsIds : contains(Cur, ws, focused)
    /\ handle_destroy(Cur, focused).focused = None
    /\ focused \notin handle_destroy(Cur, focused).windows

\* the number of foreground events delivered in a row
MaxForegrounds == 3

RECURSIVE foreground_times(_, _, _, _)
foreground_times(S, h, ok, n) ==
    IF n = 0 THEN S ELSE foreground_times(handle_foreground(S, h, ok), h, ok, n - 1)

FocusChangedFor(S, h) == \E i \in 1..Len(S.emits) : S.emits[i] = <<"focus_changed", h>>

ListedActive(S, h) == \E ws \in 1..S.nws : contains(S, ws, h) /\ S.active[ws]

\* C11: with suppress_hide_show false, a foreground event for a managed
\* handle that is not the focused window makes it the focused window and
\* emits FocusChanged; and for a window of an active workspace some finite
\* number of foreground events makes it the focused window, whatever
\* switch_workspace or move_window_to_workspace calls came before.
C11_ForegroundTakesFocus ==
    ~suppress =>
        \A h \in windows, ok \in BOOLEAN :
            /\ focused # h =>
                   /\ handle_foreground(Cur, h, ok).focused = h
                   /\ FocusChangedFor(handle_foreground(Cur, h, ok), h)
            /\ ListedActive(Cur, h) =>
                   \E n \in 0..MaxForegrounds : foreground_times(Cur, h, ok, n).focused = h

\* The case of C11: the flag is clear, a valid managed window of an active
\* workspace is not the focus and a move or a switch has left it in
\* suppressed_hwnds: a foreground event for it changes nothing at all, so
\* no number of them moves the focus.
C11_Witness ==
    /\ ~suppress
    /\ \E h \in (windows \cap valid) \cap suppressed :
        /\ focused # h
        /\ ListedActive(Cur, h)
        /\ handle_foreground(Cur, h, TRUE) = Cur

\* stop() has been called and has returned
StopReturned == spc = "done" \/ cb_stop

\* start() has ended: it returned after the loop, or raised at the hook
StartEnded == lpc \in {"returned", "raised"}

\* C12: once stop() has been called, from another thread or from a
\* callback on the loop thread, at any moment after start() was entered
\* (the initial scan and the installation of the hook included), the
\* message loop exits and start() ends.
C12_StopEndsLoop == StopReturned ~> StartEnded

\* The case of C12: another thread has run stop() to its end before
\* start() recorded the loop thread id, and the loop thread now waits in
\* GetMessage with _running true, an empty queue and no quit flag.
C12_Witness ==
    /\ spc = "done"
    /\ lpc = "get_message"
    /\ running
    /\ queue = <<>>
    /\ "loop" \notin quit_flag
    /\ "other" \in quit_flag
    /\ posted = MaxPosted

\* ws holds h hidden: h is a window, listed by ws, not fullscreen, lying
\* at the off-screen position while ws is not active
HeldHidden(ws, h) ==
    /\ contains(Cur, ws, h)
    /\ h \notin fullscreen
    /\ h \in valid
    /\ ~active[ws]
    /\ rect[h][1] = OFFSCREEN
    /\ rect[h][2] = OFFSCREEN

\* C13: between operations, a workspace has a saved position for h exactly
\* when h is a non-fullscreen member of the workspace that the workspace
\* holds hidden off-screen; so an active workspace has no saved position
\* and none refers to a window that has left the workspace.
C13_SavedPositionsMatchHidden ==
    \A ws \in 1..nws, h \in Handles :
        /\ (saved[ws][h] # NoPos) <=> HeldHidden(ws, h)
        /\ active[ws] => saved[ws][h] = NoPos
        /\ ~contains(Cur, ws, h) => saved[ws][h] = NoPos

\* The case of C13: a workspace keeps a saved position for a window that
\* it does not list any more.
C13_Witness ==
    \E ws \in 1..nws, h \in Handles :
        /\ saved[ws][h] # NoPos
        /\ ~contains(Cur, ws, h)

\* the window rect r (left, top, right, bottom) covers the rect fr of a
\* monitor, each edge being at most tol pixels inside it
Covers(r, fr, tol) ==
    /\ r[1] <= fr[1] + tol
    /\ r[2] <= fr[2] + tol
    /\ r[3] >= fr[1] + fr[3] - tol
    /\ r[4] >= fr[2] + fr[4] - tol

C15_SwitchNoOp ==
    \A t \in 0..(NumWorkspaces + 1), mi \in 0..MaxMonitors :
        (t \notin 1..nws \/ mi \notin DOMAIN monitor_ws \/ monitor_ws[mi] = t) =>
            LET R == switch_workspace(Cur, t, mi)
            IN  /\ R.ret = "false"
                /\ R.ws_emits = <<>>
                /\ R.emits = <<>>
                /\ R = Return(Cur, "false")

\* The case of C15: monitor 0 shows a workspace with a valid managed window
\* and is asked to switch to that same workspace, while a switch to another
\* workspace would register the window in suppressed_hwnds.
C15_Witness ==
    \E h \in (windows \cap valid) \ suppressed, t \in 1..nws :
        /\ InSeq(h, tiled[monitor_ws[0]])
        /\ switch_workspace(Cur, monitor_ws[0], 0).ret = "false"
        /\ h \in switch_workspace(Cur, t, 0).suppressed

\* C16: move_window_to_workspace returns False and changes no field (the
\* workspace lists, the saved positions, suppressed_hwnds, the ManagedSet
\* and the window positions among them) when the window is already in the
\* target workspace, the target id does not exist, or no workspace lists
\* the window.
C16_MoveNoOp ==
    \A h \in DOMAIN rect, t \in 0..(NumWorkspaces + 1) :
        (\/ t \notin 1..nws
         \/ contains(Cur, t, h)
         \/ find_window_workspace(Cur, h) = None) =>
            LET R == move_window_to_workspace(Cur, h, t)
            IN  /\ R.ret = "false"
                /\ R.emits = <<>>
                /\ R = Return(Cur, "false")

\* The case of C16: a valid managed window outside suppressed_hwnds is
\* asked to move to the workspace that lists it already, while a move to
\* another workspace would register it in suppressed_hwnds.
C16_Witness ==
    \E h \in (windows \cap valid) \ suppressed, s \in 1..nws, t \in 1..nws :
        /\ InSeq(h, tiled[s])
        /\ move_window_to_workspace(Cur, h, s).ret = "false"
        /\ h \in move_window_to_workspace(Cur, h, t).suppressed

AddedFor(S, h) ==
    Cardinality({i \in 1..Len(S.emits) : S.emits[i] = << "window_added", h >>})

\* C17: the initial scan over three visible top-level handles, 1 titled
\* "Editor", 2 titled "Browser" and 3 of class Shell_TrayWnd, ends with
\* ManagedSet = {1, 2}, exactly one WindowAdded for each of 1 and 2 and
\* none for 3, and workspace 1 on monitor 0 with tiled = [1, 2], 1 in the
\* master slot of Tall and 2 in the first stack slot.
C17_InitialScan ==
    (lpc = "idle" /\ valid = ScanHandles /\ {1, 2} \subseteq decorated) =>
        \A order \in EnumOrders(Cur), t3 \in TrayTitles, fg \in ScanHandles \cup {None} :
            LET R == _scan_existing(Cur,
                         enumerate_manageable_windows(Cur, order, class_name, title(t3)), fg)
                slots == TallArrange(2, work_rect(0), DefaultRatioPct, DefaultGap)
            IN  /\ R.windows = {1, 2}
                /\ AddedFor(R, 1) = 1
                /\ AddedFor(R, 2) = 1
                /\ AddedFor(R, 3) = 0
                /\ R.monitor_ws[0] = 1
                /\ R.tiled[1] = << 1, 2 >>
                /\ R.rect[1] = to_ltrb(slots[1])
                /\ R.rect[2] = to_ltrb(slots[2])

\* The case of C17: the scan has run over the three handles, 1 and 2 are
\* managed and tiled in workspace 1, 3 exists and is not managed.
C17_Witness ==
    /\ lpc = "hook"
    /\ valid = ScanHandles
    /\ {1, 2} \subseteq decorated
    /\ windows = {1, 2}
    /\ Elems(tiled[1]) = {1, 2}
    /\ tiled[1] # << 1, 2 >>

\* the tiled windows of ws outside WM-fullscreen, in list order
Tileable(S, ws) == SelectSeq(S.tiled[ws], LAMBDA h : h \notin S.fullscreen)

\* C18: Workspace.retile(work, full) repositions tiled windows only: every
\* valid fullscreen tiled window is re-applied to the full monitor rect,
\* the M non-fullscreen tiled windows get, in list order, the M rects of
\* current_layout.arrange(M, work) (an invalid handle is skipped), and no
\* floating window's position, size or minimized/maximized state changes.
C18_RetileTiledOnly ==
    \A ws \in 1..nws, mi \in 0..(MaxMonitors - 1) :
        LET work == work_rect(mi)
            full == full_rect(mi)
            R == Workspace_retile(Cur, ws, work, full)
            wins == Tileable(Cur, ws)
            rects == current_arrange(Cur, ws, Len(wins), work)
        IN  /\ \A h \in (Elems(tiled[ws]) \cap fullscreen) \cap valid :
                   R.rect[h] = to_ltrb(full)
            /\ \A i \in 1..Len(wins) :
                   wins[i] \in valid => R.rect[wins[i]] = to_ltrb(rects[i])
            /\ \A fws \in 1..nws : \A h \in Elems(floating[fws]) :
                   R.rect[h] = rect[h] /\ R.showing[h] = showing[h]
            /\ R.tiled = tiled
            /\ R.floating = floating

\* The case of C18: a workspace holds a minimized or maximized floating
\* window beside a valid tiled window that a retile restores or moves.
C18_Witness ==
    \E ws \in 1..nws, t \in valid, f \in valid :
        /\ InSeq(t, tiled[ws])
        /\ t \notin fullscreen
        /\ InSeq(f, floating[ws])
        /\ showing[f] # "normal"
        /\ Workspace_retile(Cur, ws, work_rect(0), full_rect(0)).showing[t] # showing[t]

\* C19: a second retile of a workspace with the same work and full rects,
\* nothing having changed in between, leaves every window with the
\* rectangle it had after the first.
C19_RetileIdempotent ==
    \A ws \in 1..nws, mi \in 0..(MaxMonitors - 1) :
        LET R1 == Workspace_retile(Cur, ws, work_rect(mi), full_rect(mi))
            R2 == Workspace_retile(R1, ws, work_rect(mi), full_rect(mi))
        IN  R2.rect = R1.rect

\* The case of C19: a workspace tiles a fullscreen window and a window the
\* first retile moves.
C19_Witness ==
    \E ws \in 1..nws, t1 \in valid, t2 \in valid :
        /\ InSeq(t1, tiled[ws]) /\ t1 \in fullscreen
        /\ InSeq(t2, tiled[ws]) /\ t2 \notin fullscreen
        /\ Workspace_retile(Cur, ws, work_rect(0), full_rect(0)).rect[t2] # rect[t2]

\* swap_direction(f, d) on ws, and if it swapped, the retile of the move
\* command and swap_direction(f, opposite(d)); ret is that of the first swap
RoundTrip(S, ws, f, d) ==
    LET S1 == swap_direction(S, ws, f, d)
        mi == get_monitor_for_workspace(S1, ws)
        S2 == IF mi # -1 THEN retile(S1, mi) ELSE S1
        S3 == swap_direction(S2, ws, f, opposite(d))
    IN  IF S1.ret = "swapped" THEN [S3 EXCEPT !.ret = "swapped"] ELSE S1

C22_SuspendReapply ==
    \A h \in valid \ fullscreen, m0 \in 0..(MaxMonitors - 1), mi \in 0..(MaxMonitors - 1) :
        LET R1 == enter_fullscreen(Cur, h, full_rect(m0))
            R2 == suspend_fullscreen(R1, h)
            R3 == reapply_fullscreen(R2, h, full_rect(mi))
        IN  /\ R3.rect[h] = to_ltrb(full_rect(mi))
            /\ h \notin R3.decorated
            /\ h \notin R3.hidden
            /\ h \in R2.fullscreen /\ h \in R3.fullscreen
            /\ R2.fs_saved[h] = R1.fs_saved[h]
            /\ R3.fs_saved[h] = R1.fs_saved[h]
            /\ R1.fs_saved[h] = << h \in decorated, rect[h], h \notin hidden >>

\* The case of C22: a decorated window that fullscreen covers on one
\* monitor, that suspend_fullscreen hides off-screen and that
\* reapply_fullscreen brings back on the other monitor.
C22_Witness ==
    \E h \in valid \ fullscreen :
        /\ h \in decorated
        /\ LET R1 == enter_fullscreen(Cur, h, full_rect(0))
               R2 == suspend_fullscreen(R1, h)
               R3 == reapply_fullscreen(R2, h, full_rect(1))
           IN  /\ h \in R2.hidden
               /\ R2.rect[h] # R1.rect[h]
               /\ R3.rect[h] # R1.rect[h]
               /\ h \notin R3.hidden

OffScreen(S, h) == S.rect[h][1] = OFFSCREEN \/ S.rect[h][2] = OFFSCREEN

\* C23: after restore_all_windows() no valid window of any workspace has
\* fullscreen_on, no valid window of an inactive workspace is left
\* off-screen or with a saved position still pending, the call emitted no WM
\* event, and suppress_hide_show is false.
C23_RestoreAll ==
    lpc = "idle" =>
        LET R == restore_all_windows(Cur)
        IN  /\ \A ws \in 1..nws : \A h \in Elems(all_windows(Cur, ws)) :
                   h \in valid =>
                       /\ h \notin R.fullscreen
                       /\ ~active[ws] => /\ ~OffScreen(R, h)
                                         /\ R.saved[ws][h] = NoPos
                                         /\ (saved[ws][h] # NoPos =>
                                                R.rect[h] = << saved[ws][h][1], saved[ws][h][2],
                                                               saved[ws][h][1] + saved[ws][h][3],
                                                               saved[ws][h][2] + saved[ws][h][4] >>)
                                         /\ (saved[ws][h] = NoPos =>
                                                h \notin R.hidden /\ R.showing[h] = "normal")
            /\ R.emits = <<>> /\ R.ws_emits = <<>>
            /\ ~R.raised
            /\ R.suppress = FALSE

\* The case of C23: shutdown with one inactive workspace that holds a
\* fullscreen window suspended off-screen and a window whose position was
\* saved when it was moved there.
C23_Witness ==
    /\ lpc = "idle"
    /\ \E ws \in 1..nws, h \in valid, g \in valid :
        /\ ~active[ws]
        /\ contains(Cur, ws, h) /\ contains(Cur, ws, g)
        /\ h \in fullscreen /\ OffScreen(Cur, h) /\ h \in hidden
        /\ g \notin fullscreen /\ saved[ws][g] # NoPos

Released == hook_handle = 0 /\ hotkeys = {} /\ com = 0

\* C24: whenever start() has terminated, by leaving the loop or by raising
\* after the hook could not be installed, the event hook is removed, no
\* hotkey of the HotkeyManager is still registered, and every COM
\* initialisation has been balanced by one uninitialisation.
C24_ResourcesReleased == StartEnded => Released

\* The case of C24: start() has raised RuntimeError because SetWinEventHook
\* failed, after main() had registered its hotkeys.
C24_Witness == lpc = "raised" /\ hotkeys # {} /\ hook_handle = 0 /\ com = 0

\* the part of C24 the code satisfies: a start() that left its loop
ReleasedAfterLoop == lpc = "returned" => Released

\* the program with its faulty callbacks taken out
Quiet(S) ==
    [S EXCEPT !.subscribers = SelectSeq(@, LAMBDA cb : cb # "faulty"),
              !.on_ws_changed = SelectSeq(@, LAMBDA cb : cb # "faulty")]

\* every subscriber of every emitted event, in registration order
RECURSIVE CallsFor(_, _, _)
CallsFor(S, es, i) ==
    IF i > Len(es) THEN <<>>
    ELSE [j \in 1..Len(subscribers_of(S, es[i][1])) |->
              << subscribers_of(S, es[i][1])[j], es[i][1], es[i][2] >>]
         \o CallsFor(S, es, i + 1)

RECURSIVE WsCallsFor(_, _, _)
WsCallsFor(S, es, i) ==
    IF i > Len(es) THEN <<>> ELSE S.on_ws_changed \o WsCallsFor(S, es, i + 1)

\* the handlers of _on_win_event, each run with and without the faulty
\* callbacks
HandlerRuns(h, ok) ==
    { << handle_show(Cur, h, ok), handle_show(Quiet(Cur), h, ok) >>,
      << handle_destroy(Cur, h), handle_destroy(Quiet(Cur), h) >>,
      << handle_hide(Cur, h), handle_hide(Quiet(Cur), h) >>,
      << handle_foreground(Cur, h, ok), handle_foreground(Quiet(Cur), h, ok) >>,
      << handle_minimize(Cur, h), handle_minimize(Quiet(Cur), h) >>,
      << handle_restore(Cur, h, ok), handle_restore(Quiet(Cur), h, ok) >> }

\* C25: with a subscriber that raises, every handler still invokes all the
\* subscribers of each event it emits, in registration order, ends without
\* raising, and leaves the ManagedSet, the focus and the emitted events as
\* they are without the faulty subscriber; switch_workspace invokes every
\* workspace-changed callback in order although one raises, and dispatch of
\* a hotkey whose callback raises returns True without raising.
C25_CallbackIsolation ==
    /\ \A h \in Handles, ok \in BOOLEAN : \A p \in HandlerRuns(h, ok) :
           /\ ~p[1].raised
           /\ p[1].calls = CallsFor(Cur, p[1].emits, 1)
           /\ p[1].emits = p[2].emits
           /\ p[1].windows = p[2].windows
           /\ p[1].focused = p[2].focused
    /\ \A t \in 1..NumWorkspaces :
           LET R == switch_workspace(Cur, t, 0)
               Q == switch_workspace(Quiet(Cur), t, 0)
           IN  /\ R.raised = Q.raised
               /\ R.ws_emits = Q.ws_emits
               /\ R.ws_calls = WsCallsFor(Cur, R.ws_emits, 1)
               /\ R.monitor_ws = Q.monitor_ws
    /\ \A id \in hotkeys :
           /\ ~dispatch(Cur, hotkeys, id, "faulty").raised
           /\ dispatch(Cur, hotkeys, id, "faulty").ret = "true"

\* The case of C25: the faulty subscriber is registered first, a show event
\* manages a window, so that the workspace handler and on_event come after
\* the exception; the faulty workspace-changed callback is registered first
\* and a switch succeeds; a hotkey is registered.
C25_Witness ==
    /\ subscribers[1] = "faulty"
    /\ on_ws_changed[1] = "faulty"
    /\ hotkeys # {}
    /\ \E h \in Handles :
           /\ Len(handle_show(Cur, h, TRUE).calls) = 3
           /\ h \notin windows
           /\ h \in handle_show(Cur, h, TRUE).windows
    /\ \E t \in 1..NumWorkspaces : Len(switch_workspace(Cur, t, 0).ws_calls) = 2

\* what the current layout of the workspace on monitor 0 returns
Arranged(li, count, area) ==
    arrange(li, count, area, _master_ratio[monitor_ws[0]][li], _gap[monitor_ws[0]][li])

\* C26: with the master ratio and gap the layout has reached, arrange(N,
\* area) returns exactly N rects for every N >= 0 and every area of positive
\* size, and each of them has width >= 0 and height >= 0.
C26_ArrangeNonNegative ==
    \A count \in 0..MaxCount, area \in Areas :
        LET rs == Arranged(layout_index[monitor_ws[0]], count, area)
        IN  /\ Len(rs) = count
            /\ \A i \in 1..Len(rs) : rs[i][3] >= 0 /\ rs[i][4] >= 0

\* The case of C26: the gap of the current layout has been increased, and
\* arrange returns its N rects for an area of positive size, one of them
\* with a negative width.
C26_Witness ==
    /\ _gap[monitor_ws[0]][layout_index[monitor_ws[0]]] > DefaultGap
    /\ \E count \in 2..MaxCount, area \in Areas :
        LET rs == Arranged(layout_index[monitor_ws[0]], count, area)
        IN  /\ area[3] > 0 /\ area[4] > 0
            /\ Len(rs) = count
            /\ \E i \in 1..Len(rs) : rs[i][3] < 0

\* the part of C26 the code satisfies: the number of rects
ArrangeCount ==
    \A count \in 0..MaxCount, area \in Areas, li \in 0..(NumLayouts - 1) :
        Len(Arranged(li, count, area)) = count

Overlap(r, q) ==
    /\ r[3] > 0 /\ r[4] > 0 /\ q[3] > 0 /\ q[4] > 0
    /\ r[1] < q[1] + q[3] /\ q[1] < r[1] + r[3]
    /\ r[2] < q[2] + q[4] /\ q[2] < r[2] + r[4]

Inside(r, a) ==
    /\ r[3] >= 0 /\ r[4] >= 0
    /\ a[1] <= r[1] /\ r[1] + r[3] <= a[1] + a[3]
    /\ a[2] <= r[2] /\ r[2] + r[4] <= a[2] + a[4]

RECURSIVE SumArea(_, _)
SumArea(rs, i) == IF i > Len(rs) THEN 0 ELSE rs[i][3] * rs[i][4] + SumArea(rs, i + 1)

\* rs lie inside a, no two of them overlap, and together they fill a
Partition(rs, a) ==
    /\ \A i \in 1..Len(rs) : Inside(rs[i], a)
    /\ \A i \in 1..Len(rs), j \in 1..Len(rs) : i < j => ~Overlap(rs[i], rs[j])
    /\ SumArea(rs, 1) = a[3] * a[4]

\* C27: with gap 0, for Tall, Wide and ThreeColumn, every N >= 1 and every
\* area of positive size, the rects of arrange(N, A) are pairwise
\* non-overlapping and their union is exactly A, whatever master ratio in
\* [0.1, 0.9] the layout has reached.
C27_GaplessPartition ==
    \A li \in {0, 1, 3} :
        _gap[monitor_ws[0]][li] = 0 =>
            \A count \in 1..MaxCount, area \in Areas :
                Partition(Arranged(li, count, area), area)

\* The case of C27: ThreeColumn with gap 0 and a master ratio moved away
\* from its default arranges five windows in the work area, every one of
\* them on a rect of positive size.
C27_Witness ==
    /\ layout_index[monitor_ws[0]] = 3
    /\ _gap[monitor_ws[0]][3] = 0
    /\ _master_ratio[monitor_ws[0]][3] \notin {ThreeColumnRatioPct, DefaultRatioPct}
    /\ LET rs == Arranged(3, 5, work_rect(0))
       IN  Len(rs) = 5 /\ \A i \in 1..5 : rs[i][3] > 0 /\ rs[i][4] > 0

\* C28: whatever sequence of grow_master, shrink_master, increase_gap,
\* decrease_gap and direct assignments has run, every layout has
\* 0.1 <= master_ratio <= 0.9 and gap >= 0.
C28_ParametersClamped ==
    \A ws \in WsIds, li \in 0..(NumLayouts - 1) :
        /\ 10 <= _master_ratio[ws][li] /\ _master_ratio[ws][li] <= 90
        /\ _gap[ws][li] >= 0

\* The case of C28: the current layout sits at master ratio 0.9 and gap 0,
\* where grow_master and decrease_gap would leave the range.
C28_Witness ==
    /\ _master_ratio[monitor_ws[0]][layout_index[monitor_ws[0]]] = 90
    /\ _gap[monitor_ws[0]][layout_index[monitor_ws[0]]] = 0
    /\ cmd_grow_master(Cur)._master_ratio = _master_ratio
    /\ cmd_decrease_gap(Cur)._gap = _gap

\* C29: every layout of every workspace, as the workspace was created, has
\* master_ratio 0.55 and gap 4.
C29_FreshDefaults ==
    AsConstructed =>
        \A ws \in WsIds, li \in 0..(NumLayouts - 1) :
            _master_ratio[ws][li] = DefaultRatioPct /\ _gap[ws][li] = DefaultGap

\* The case of C29: the workspace on monitor 0 has all its layouts as
\* constructed and shows ThreeColumn.
C29_Witness ==
    /\ AsConstructed
    /\ layout_index[monitor_ws[0]] = 3
    /\ _master_ratio[monitor_ws[0]][3] = ThreeColumnRatioPct

\* the centre of candidate c lies strictly in direction d from the centre of f
InDirection(f, c, d) ==
    LET dx == _get_window_center(Cur, c)[1] - _get_window_center(Cur, f)[1]
        dy == _get_window_center(Cur, c)[2] - _get_window_center(Cur, f)[2]
    IN  IF d = "left" THEN dx < 0
        ELSE IF d = "right" THEN dx > 0
        ELSE IF d = "up" THEN dy < 0
        ELSE dy > 0

PrimaryDistance(f, c, d) ==
    IF d \in {"left", "right"}
    THEN Abs(_get_window_center(Cur, c)[1] - _get_window_center(Cur, f)[1])
    ELSE Abs(_get_window_center(Cur, c)[2] - _get_window_center(Cur, f)[2])

SecondaryDistance(f, c, d) ==
    IF d \in {"left", "right"}
    THEN Abs(_get_window_center(Cur, c)[2] - _get_window_center(Cur, f)[2])
    ELSE Abs(_get_window_center(Cur, c)[1] - _get_window_center(Cur, f)[1])

\* the valid candidates other than f in direction d
CandidatesInDirection(f, candidates, d) ==
    {c \in {candidates[i] : i \in 1..Len(candidates)} : c # f /\ c \in valid /\ InDirection(f, c, d)}

\* r is one of cs with the least primary and then the least secondary distance
Nearest(r, f, cs, d) ==
    /\ r \in cs
    /\ \A c \in cs :
        \/ PrimaryDistance(f, r, d) < PrimaryDistance(f, c, d)
        \/ /\ PrimaryDistance(f, r, d) = PrimaryDistance(f, c, d)
           /\ SecondaryDistance(f, r, d) <= SecondaryDistance(f, c, d)

Permuted(R) ==
    /\ R.floating = floating
    /\ \A ws \in WsIds :
        /\ Len(R.tiled[ws]) = Len(tiled[ws])
        /\ \A h \in DOMAIN rect : Count(h, R.tiled[ws]) = Count(h, tiled[ws])

\* C31: swap_master, swap_with_master, rotate_next, rotate_prev and
\* swap_direction only permute the tiled list and leave the floating list
\* alone; swap_master exchanges the first two tiled windows and undoes
\* itself, rotate_next and rotate_prev shift by one and undo each other, and
\* with fewer than two tiled windows none of them changes the list.
C31_StackPermutations ==
    LET ws == monitor_ws[0]
        n == Len(tiled[ws])
        Sm == Workspace_swap_master(Cur, ws)
        Rn == Workspace_rotate_next(Cur, ws)
        Rp == Workspace_rotate_prev(Cur, ws)
    IN  /\ Permuted(Sm) /\ Permuted(Rn) /\ Permuted(Rp)
        /\ \A h \in DOMAIN rect :
            /\ Permuted(Workspace_swap_with_master(Cur, ws, h))
            /\ \A d \in Directions : Permuted(swap_direction(Cur, ws, h, d))
        /\ n >= 2 =>
            /\ Sm.tiled[ws][1] = tiled[ws][2] /\ Sm.tiled[ws][2] = tiled[ws][1]
            /\ \A i \in 3..n : Sm.tiled[ws][i] = tiled[ws][i]
            /\ Rn.tiled[ws][1] = tiled[ws][n]
            /\ \A i \in 1..(n - 1) : Rn.tiled[ws][i + 1] = tiled[ws][i]
            /\ Rp.tiled[ws][n] = tiled[ws][1]
            /\ \A i \in 1..(n - 1) : Rp.tiled[ws][i] = tiled[ws][i + 1]
        /\ Workspace_swap_master(Sm, ws).tiled = tiled
        /\ Workspace_rotate_prev(Rn, ws).tiled = tiled
        /\ Workspace_rotate_next(Rp, ws).tiled = tiled
        /\ n < 2 =>
            /\ Sm.tiled = tiled /\ Rn.tiled = tiled /\ Rp.tiled = tiled
            /\ \A h \in DOMAIN rect :
                /\ Workspace_swap_with_master(Cur, ws, h).tiled = tiled
                /\ \A d \in Directions : swap_direction(Cur, ws, h, d).tiled = tiled

\* The case of C31: three tiled windows and a floating one, where
\* swap_master, rotate_next and rotate_prev each give a different order.
C31_Witness ==
    LET ws == monitor_ws[0]
    IN  /\ Len(tiled[ws]) = 3
        /\ Len(floating[ws]) >= 1
        /\ Workspace_swap_master(Cur, ws).tiled[ws] # tiled[ws]
        /\ Workspace_rotate_next(Cur, ws).tiled[ws] # Workspace_rotate_prev(Cur, ws).tiled[ws]
        /\ Workspace_rotate_next(Cur, ws).tiled[ws] # Workspace_swap_master(Cur, ws).tiled[ws]

\* C32: suppress_hide_show is false whenever control is back in the event
\* loop: started with the flag clear, every operation of the workspace
\* manager and every event handler ends with the flag clear, also when a
\* hide or show step inside the suppressed section raised.
C32_SuppressionReleased ==
    suppress = FALSE =>
        /\ \A t \in 0..NumWorkspaces, mi \in 0..(MaxMonitors - 1) :
            switch_workspace(Cur, t, mi).suppress = FALSE
        /\ \A h \in Handles, t \in 0..NumWorkspaces :
            move_window_to_workspace(Cur, h, t).suppress = FALSE
        /\ \A h \in Handles : move_window_to_next_monitor(Cur, h).suppress = FALSE
        /\ \A n \in 0..MaxMonitors : refresh_monitors(Cur, n).suppress = FALSE
        /\ restore_all_windows(Cur).suppress = FALSE
        /\ \A h \in Handles, ok \in BOOLEAN :
            /\ handle_restore(Cur, h, ok).suppress = FALSE
            /\ handle_show(Cur, h, ok).suppress = FALSE
            /\ handle_foreground(Cur, h, ok).suppress = FALSE
        /\ \A h \in Handles :
            /\ handle_minimize(Cur, h).suppress = FALSE
            /\ handle_hide(Cur, h).suppress = FALSE
            /\ handle_destroy(Cur, h).suppress = FALSE

\* The case of C32: a switch to another workspace raises inside its
\* suppressed section, after registering the windows of both workspaces,
\* and ends with the flag clear.
C32_Witness ==
    /\ suppress = FALSE
    /\ \E t \in 1..NumWorkspaces :
        /\ switch_workspace(Cur, t, 0).raised
        /\ switch_workspace(Cur, t, 0).suppressed # suppressed
        /\ switch_workspace(Cur, t, 0).suppress = FALSE

\* the valid, non-fullscreen windows of workspace ws
Hideable(ws) == {h \in Elems(all_windows(Cur, ws)) : h \in valid /\ h \notin fullscreen}

\* C33: hide_all_windows on a workspace without saved positions processes
\* every window without raising and leaves each valid non-fullscreen window
\* at (-32000, -32000) with its size, at the bottom of the Z-order; a
\* following show_all_windows puts each of them back on the rect it had and
\* leaves the saved positions empty.
C33_HideShowRoundTrip ==
    \A ws \in 1..nws :
        LET H == hide_all_windows(Cur, ws)
            R == show_all_windows(H, ws)
        IN  (\A h \in Handles : saved[ws][h] = NoPos) =>
                /\ ~H.raised
                /\ \A h \in Hideable(ws) :
                    /\ H.rect[h][1] = OFFSCREEN /\ H.rect[h][2] = OFFSCREEN
                    /\ H.rect[h][3] - H.rect[h][1] = rect[h][3] - rect[h][1]
                    /\ H.rect[h][4] - H.rect[h][2] = rect[h][4] - rect[h][2]
                    /\ h \in H.lowered
                    /\ R.rect[h] = rect[h]
                /\ \A h \in Handles : R.saved[ws][h] = NoPos

\* The case of C33: a workspace without saved positions lists a valid
\* non-fullscreen window, and hide_all_windows raises with the window where
\* it was and its position recorded.
C33_Witness ==
    \E ws \in 1..nws : \E h \in Hideable(ws) :
        /\ \A k \in Handles : saved[ws][k] = NoPos
        /\ hide_all_windows(Cur, ws).raised
        /\ hide_all_windows(Cur, ws).rect[h] = rect[h]
        /\ hide_all_windows(Cur, ws).saved[ws][h] = from_ltrb(rect[h])

\* the non-fullscreen tiled windows of ws lie where its layout puts them
\* over the work rect of monitor mi, and nothing was raised
Retiled(S, ws, mi) ==
    LET wins == Tileable(S, ws)
        rects == current_arrange(S, ws, Len(wins), work_rect(mi))
    IN  /\ ~S.raised
        /\ \A i \in 1..Len(wins) :
            wins[i] \in S.valid => S.rect[wins[i]] = to_ltrb(rects[i])

\* C34: a WindowRemoved event for a window of an inactive workspace leaves
\* the lists of every workspace as they are; for a window of an active
\* workspace it takes the window out of that workspace, leaves the other
\* workspaces alone and retiles the workspace on its monitor.
C34_RemovedInactiveKept ==
    \A h \in DOMAIN rect :
        LET ws == find_window_workspace(Cur, h)
            R == workspace_handler(Cur, "window_removed", h)
        IN  /\ (ws # None /\ ~active[ws]) =>
                /\ R.tiled = tiled
                /\ R.floating = floating
            /\ (ws # None /\ active[ws]) =>
                /\ ~contains(R, ws, h)
                /\ \A o \in WsIds \ {ws} :
                    R.tiled[o] = tiled[o] /\ R.floating[o] = floating[o]
                /\ get_monitor_for_workspace(Cur, ws) # -1 =>
                    Retiled(R, ws, get_monitor_for_workspace(Cur, ws))

\* The case of C34: a window listed by an inactive workspace, which
\* remove_window would take out of it, and another window listed by an
\* active workspace, which the event takes out of it.
C34_Witness ==
    /\ \E h \in DOMAIN rect :
        /\ find_window_workspace(Cur, h) # None
        /\ ~active[find_window_workspace(Cur, h)]
        /\ remove_window(Cur, h).tiled # tiled
        /\ workspace_handler(Cur, "window_removed", h).tiled = tiled
    /\ \E k \in DOMAIN rect :
        /\ find_window_workspace(Cur, k) # None
        /\ active[find_window_workspace(Cur, k)]
        /\ workspace_handler(Cur, "window_removed", k).tiled # tiled

InNoWorkspace(S, h) == \A ws \in WsIds : ~contains(S, ws, h)

\* C35, the two handlers: a minimize event for a managed window of
\* workspace W takes it out of W, records W as its origin and retiles W if W
\* is shown; a restore event for a managed window that no workspace lists
\* puts it back into the recorded origin, retiled if the origin is shown and
\* hidden if it is not, and without a recorded origin the window goes to the
\* workspace of monitor 0 or to none.
MinimizeRestoreSteps ==
    \A h \in DOMAIN rect :
        LET ws == find_window_workspace(Cur, h)
            M == workspace_handler(Cur, "window_minimized", h)
            R == workspace_handler(Cur, "window_restored", h)
        IN  /\ ws # None =>
                /\ ~contains(M, ws, h)
                /\ M.origins[h] = ws
                /\ (active[ws] /\ get_monitor_for_workspace(Cur, ws) # -1) =>
                    Retiled(M, ws, get_monitor_for_workspace(Cur, ws))
            /\ (ws = None /\ origins[h] # None) =>
                /\ contains(R, origins[h], h)
                /\ \A o \in WsIds \ {origins[h]} : ~contains(R, o, h)
                /\ R.origins[h] = None
                /\ (active[origins[h]] /\ get_monitor_for_workspace(Cur, origins[h]) # -1) =>
                    Retiled(R, origins[h], get_monitor_for_workspace(Cur, origins[h]))
                /\ (~active[origins[h]] /\ h \in valid) => h \in R.hidden
            /\ (ws = None /\ origins[h] = None) =>
                \A o \in WsIds : contains(R, o, h) => o = monitor_ws[0]

\* C35, between the two: the recorded origin of a window changes only to a
\* workspace that listed the window before the step and does not list it
\* after, or is consumed by putting the window back into it.
OriginSteps ==
    \A h \in DOMAIN rect :
        origins'[h] # origins[h] =>
            \/ /\ origins'[h] # None
               /\ contains(Cur, origins'[h], h)
               /\ ~InSeq(h, tiled'[origins'[h]]) /\ ~InSeq(h, floating'[origins'[h]])
            \/ /\ origins'[h] = None
               /\ InNoWorkspace(Cur, h)
               /\ InSeq(h, tiled'[origins[h]])

\* C35: a minimized window leaves its workspace W, which is retiled if
\* active; restored while in no workspace it is put back into W, the
\* workspace it was in when minimized, hidden if W is not active, and only
\* without a recorded origin it goes to the workspace of monitor 0.
C35_RestoreToOrigin == [](MinimizeRestoreSteps) /\ [][OriginSteps]_vars

\* The case of C35: a managed window was minimized in a workspace that lost
\* the monitor since; no workspace lists it, and its restore puts it back
\* into that workspace, hidden, while another workspace is shown.
C35_Witness ==
    \E h \in windows \cap valid :
        /\ InNoWorkspace(Cur, h)
        /\ origins[h] # None
        /\ ~active[origins[h]]
        /\ monitor_ws[0] # origins[h]
        /\ h \notin hidden
        /\ contains(handle_restore(Cur, h, TRUE), origins[h], h)
        /\ h \in handle_restore(Cur, h, TRUE).hidden

\* every FocusChanged that S emitted names the window S ends focused on,
\* a member of the ManagedSet
FocusEmitsManaged(S) ==
    \A k \in DOMAIN rect : FocusChangedFor(S, k) => k \in S.windows /\ S.focused = k

\* C36: the focus is None or one window whose handle is in the ManagedSet,
\* and no event handler emits FocusChanged for a window outside the
\* ManagedSet.
C36_FocusedIsManaged ==
    /\ focused \in windows \cup {None}
    /\ \A h \in DOMAIN rect, ok \in BOOLEAN :
        /\ FocusEmitsManaged(handle_foreground(Cur, h, ok))
        /\ FocusEmitsManaged(handle_show(Cur, h, ok))
        /\ FocusEmitsManaged(handle_restore(Cur, h, ok))
        /\ FocusEmitsManaged(handle_destroy(Cur, h))
        /\ FocusEmitsManaged(handle_hide(Cur, h))
        /\ FocusEmitsManaged(handle_minimize(Cur, h))

\* The case of C36: the focused window is managed, its hide event drops it
\* from the ManagedSet and clears the focus, and its foreground event would
\* emit FocusChanged again only after managing it.
C36_Witness ==
    /\ focused # None
    /\ focused \in windows
    /\ ~suppress
    /\ focused \notin suppressed
    /\ handle_hide(Cur, focused).focused = None
    /\ focused \notin handle_hide(Cur, focused).windows
    /\ FocusChangedFor(handle_foreground(handle_hide(Cur, focused), focused, TRUE), focused)

\* every retile that S made was of a workspace with the rects of the
\* monitor that showed it
RetilesMapped(S) == \A i \in 1..Len(S.retiled) : S.retiled[i][3]

\* C37: no operation and no event handler retiles a workspace with the
\* rects of a monitor that does not show it at that moment.
C37_RetileOnlyMapped ==
    /\ \A h \in DOMAIN rect, mi \in 0..(MaxMonitors - 1), fl \in BOOLEAN :
        RetilesMapped(add_window(Cur, h, mi, fl))
    /\ \A h \in DOMAIN rect :
        /\ RetilesMapped(remove_window(Cur, h))
        /\ RetilesMapped(move_window_to_next_monitor(Cur, h))
        /\ \A t \in 0..NumWorkspaces : RetilesMapped(move_window_to_workspace(Cur, h, t))
        /\ \A ev \in HandledEvents : RetilesMapped(workspace_handler(Cur, ev, h))
    /\ \A t \in 0..NumWorkspaces, mi \in 0..(MaxMonitors - 1) :
        RetilesMapped(switch_workspace(Cur, t, mi))
    /\ \A n \in 0..MaxMonitors : RetilesMapped(refresh_monitors(Cur, n))
    /\ \A mi \in 0..(MaxMonitors - 1) : RetilesMapped(retile(Cur, mi))
    /\ RetilesMapped(retile_all(Cur))

\* The case of C37: two monitors are attached and only monitor 0 shows a
\* workspace; move_window_to_next_monitor takes the workspace of the
\* unmapped monitor 1 to be workspace 1 and retiles it with the rects of
\* monitor 1, which puts the window on monitor 1 while monitor 0 shows its
\* workspace.
C37_Witness ==
    \E h \in windows \cap valid :
        /\ nmon = 2
        /\ DOMAIN monitor_ws = {0}
        /\ InSeq(h, tiled[monitor_ws[0]])
        /\ h \notin fullscreen
        /\ ~RetilesMapped(move_window_to_next_monitor(Cur, h))
        /\ move_window_to_next_monitor(Cur, h).monitor_ws = monitor_ws
        /\ move_window_to_next_monitor(Cur, h).rect[h][1] >= MonW

\* The workspace of S that lists h as floating (None when there is none), and
\* the same for tiled.
FloatingIn(S, h) ==
    IF \E ws \in 1..S.nws : InSeq(h, S.floating[ws])
    THEN CHOOSE ws \in 1..S.nws : InSeq(h, S.floating[ws]) ELSE None

KindKept(S, R, h) ==
    \A ws \in 1..S.nws :
        /\ InSeq(h, S.floating[ws]) =>
               \E t \in 1..R.nws : InSeq(h, R.floating[t])
        /\ InSeq(h, S.tiled[ws]) =>
               \E t \in 1..R.nws : InSeq(h, R.tiled[t])

\* C38: a window keeps its kind when it changes workspace: after a successful
\* move_window_to_workspace or move_window_to_next_monitor a window that was
\* floating is floating in the destination and a tiled one is tiled.
C38_KindKept ==
    \A h \in DOMAIN rect :
        /\ \A t \in 0..NumWorkspaces :
               LET R == move_window_to_workspace(Cur, h, t)
               IN  (R.ret = "true" /\ ~R.raised) => KindKept(Cur, R, h)
        /\ LET R == move_window_to_next_monitor(Cur, h)
           IN  (R.ret = "true" /\ ~R.raised) => KindKept(Cur, R, h)

\* A floating window is moved to a workspace that is shown: it ends in the
\* tiled list of the destination and the retile of the destination gives it
\* another rectangle.
C38_Witness ==
    \E h \in DOMAIN rect : \E t \in 1..NumWorkspaces :
        LET R == move_window_to_workspace(Cur, h, t)
        IN  /\ FloatingIn(Cur, h) # None
            /\ R.ret = "true" /\ ~R.raised
            /\ Cur.active[t]
            /\ InSeq(h, R.tiled[t])
            /\ ~InSeq(h, R.floating[t])
            /\ R.rect[h] # rect[h]

\* The fields of HotkeyManager and ResizeMode in K, the result left out.
KeyFields(K) == << K.hotkeys, K.next_id, K.active, K.temp >>

TempRegisteredIffActive ==
    /\ resize_active =>
           temp_hotkey_ids \subseteq hotkeys /\ Cardinality(temp_hotkey_ids) = NumResizeKeys
    /\ ~resize_active => temp_hotkey_ids \cap hotkeys = {}

EnterExitIdempotent ==
    /\ resize_active =>
           \A oks \in ResizeAccepts :
               KeyFields(ResizeMode_enter(CurKeys, oks)) = KeyFields(CurKeys)
    /\ ~resize_active => KeyFields(ResizeMode_exit(CurKeys)) = KeyFields(CurKeys)

\* enter() from an inactive mode followed by exit(), called directly or by
\* the dispatch of one of the ids that enter() registered
ExitUndoesEnter ==
    (~resize_active /\ HasIds(NumResizeKeys)) =>
        \A oks \in ResizeAccepts :
            /\ ResizeMode_exit(ResizeMode_enter(CurKeys, oks)).hotkeys = hotkeys
            /\ ~ResizeMode_exit(ResizeMode_enter(CurKeys, oks)).active
            /\ \A hotkey_id \in ResizeMode_enter(CurKeys, oks).temp :
                   dispatch_keys(ResizeMode_enter(CurKeys, oks), hotkey_id, "exit", oks).hotkeys
                       = hotkeys

ArrowInactiveNoResize ==
    ~resize_active => \A d \in ResizeDirections : _handler(Cur, resize_active, d) = Cur

\* C39: the six temporary hotkeys of ResizeMode are registered in the
\* HotkeyManager if and only if the mode is active; enter() while active and
\* exit() while inactive change nothing; exit() unregisters exactly what
\* enter() registered, so the hotkey set is the one before enter(); an arrow
\* callback performs no resize while the mode is inactive.
C39_TempHotkeysIffActive ==
    /\ TempRegisteredIffActive
    /\ EnterExitIdempotent
    /\ ExitUndoesEnter
    /\ ArrowInactiveNoResize

\* enter() has run while the OS refused Escape and Return: the mode is active
\* and fewer than six temporary hotkeys are registered.
C39_Witness ==
    /\ resize_active
    /\ temp_hotkey_ids \subseteq hotkeys
    /\ Cardinality(temp_hotkey_ids) = NumResizeKeys - 2

\* Every id handed out so far is below the counter.
IssuedBelowCounter == \A hotkey_id \in hotkeys : hotkey_id < next_id

\* register and replace that succeed return the counter, an id above every
\* registered one, and a refused registration consumes no id
FreshOnSuccess ==
    /\ register(CurKeys, TRUE).ret = next_id
    /\ register(CurKeys, TRUE).next_id = next_id + 1
    /\ KeyFields(register(CurKeys, FALSE)) = KeyFields(CurKeys)
    /\ \A hotkey_id \in hotkeys :
           /\ replace(CurKeys, hotkey_id, TRUE).ret = next_id
           /\ replace(CurKeys, hotkey_id, TRUE).hotkeys = (hotkeys \ {hotkey_id}) \cup {next_id}
           /\ replace(CurKeys, hotkey_id, FALSE).ret = None
           /\ replace(CurKeys, hotkey_id, FALSE).next_id = next_id

\* dispatch of an id that is not registered: no callback, False
StaleDispatchIgnored ==
    \A hotkey_id \in (1..MaxHotkeyId) \ hotkeys :
        /\ \A cb \in {"command", "faulty"} :
               dispatch(Cur, hotkeys, hotkey_id, cb) = Return(Cur, "false")
        /\ \A cb \in ResizeDirections \cup {"exit", "enter_resize_mode"} :
               /\ dispatch_keys(CurKeys, hotkey_id, cb, [i \in 1..NumResizeKeys |-> TRUE]).ret = FALSE
               /\ KeyFields(dispatch_keys(CurKeys, hotkey_id, cb, [i \in 1..NumResizeKeys |-> TRUE]))
                      = KeyFields(CurKeys)

\* the counter never moves back and the ids that a step adds are the ones
\* the counter has passed in that step
IdsFromCounter ==
    /\ next_id' >= next_id
    /\ \A hotkey_id \in hotkeys' \ hotkeys : next_id <= hotkey_id /\ hotkey_id < next_id'

\* C40: HotkeyManager never gives the same id to two registrations: the ids of
\* successful register and replace calls are strictly increasing and are not
\* reused after unregister, unregister_all or a refused registration, and
\* dispatch of an id that is not registered invokes no callback and returns
\* False.
C40_IdsNeverReused ==
    /\ [](IssuedBelowCounter /\ FreshOnSuccess /\ StaleDispatchIgnored)
    /\ [][IdsFromCounter]_vars

\* The resize mode has been left, its ids are stale, and a later
\* registration holds a larger id.
C40_Witness ==
    /\ ~resize_active
    /\ \E hotkey_id \in 1..(next_id - 1) :
           /\ hotkey_id \notin hotkeys
           /\ \E later \in hotkeys : later > hotkey_id
    /\ Cardinality((1..(next_id - 1)) \ hotkeys) >= NumResizeKeys

====
